---------------------------- MODULE Spec2Model ----------------------------
(***************************************************************************)
(* A model of pgtype.Map (src/pgtype/pgtype.go): the type registry, the    *)
(* scan-plan cache and the recursive resolution of encode and scan plans   *)
(* through the ordered chains of wrapper rules.                            *)
(***************************************************************************)
EXTENDS Integers, Sequences, FiniteSets, TLC

(***************************************************************************)
(* Program constants.                                                      *)
(***************************************************************************)
ByteaOID == 17
QCharOID == 18
NameOID == 19
Int8OID == 20
Int4OID == 23
TextOID == 25
QCharArrayOID == 1003
NameArrayOID == 1003
Int4ArrayOID == 1007
TextArrayOID == 1009
ByteaArrayOID == 1001
Int8ArrayOID == 1016
VarcharOID == 1043
TextFormatCode == 0
BinaryFormatCode == 1

(***************************************************************************)
(* Bounds of the model.                                                    *)
(***************************************************************************)
\* constructors ("ptr", "slice") stacked on a base type in an input shape
MaxNest == 3
\* recursion budget of one resolution; the code has none
MaxFuel == 12
\* calls of Map.Encode one within the other that are followed
MaxUnwrap == 3
\* registrations explored after NewMap
MaxRegs == 2
\* distinct (oid, type) keys the explored cache holds
MaxMemo == 2

(***************************************************************************)
(* Go types (reflect.Type).  A type is a sequence: constructors "ptr" and  *)
(* "slice" followed by one base name.  <<"nil">> is the type of the        *)
(* untyped nil interface value (reflect.TypeOf(nil)).                      *)
(***************************************************************************)
UserBases ==
  {"int32", "string", "uint8", "MyInt", "SkipInt", "StrInt", "Exp", "NoExp",
   "Text", "UndecodedBytes"}

WrapperBases ==
  {"int32Wrapper", "stringWrapper", "uint8Wrapper", "byteSliceWrapper",
   "fmtStringerWrapper", "structWrapper", "ptrStructWrapper",
   "anySliceArray", "anyMultiDimSliceArray"}

RECURSIVE Prefixes(_)
Prefixes(n) ==
  IF n = 0 THEN {<<>>}
  ELSE LET P == Prefixes(n - 1)
       IN  P \cup {<<c>> \o p : c \in {"ptr", "slice"}, p \in {q \in P : Len(q) = n - 1}}

\* interface{} is a static type only: it occurs below a constructor
Types ==
  {p \o <<b>> : p \in Prefixes(MaxNest), b \in UserBases}
    \cup {p \o <<"iface">> : p \in Prefixes(MaxNest) \ {<<>>}}

NilType == <<"nil">>

IsPtr(t) == Len(t) > 1 /\ t[1] = "ptr"
IsSliceCtor(t) == Len(t) > 1 /\ t[1] = "slice"
Elem(t) == Tail(t)

\* reflect.Kind of a base type
BaseKind(b) ==
  CASE b \in {"int32", "MyInt", "SkipInt", "StrInt", "int32Wrapper"} -> "int32"
    [] b \in {"string", "stringWrapper"} -> "string"
    [] b \in {"uint8", "uint8Wrapper"} -> "uint8"
    [] b \in {"byteSliceWrapper", "UndecodedBytes"} -> "slice"
    [] b = "iface" -> "interface"
    [] b = "nil" -> "invalid"
    [] OTHER -> "struct"

Kind(t) ==
  IF IsPtr(t) THEN "ptr"
  ELSE IF IsSliceCtor(t) THEN "slice"
  ELSE BaseKind(t[1])

\* kind of the element type of a slice type
ElemKind(t) ==
  IF IsSliceCtor(t) THEN Kind(Elem(t))
  ELSE IF t \in {<<"byteSliceWrapper">>, <<"UndecodedBytes">>} THEN "uint8"
  ELSE "invalid"

\* number of leading "ptr" constructors
RECURSIVE PtrDepth(_)
PtrDepth(t) == IF IsPtr(t) THEN 1 + PtrDepth(Elem(t)) ELSE 0

RECURSIVE StripPtrs(_)
StripPtrs(t) == IF IsPtr(t) THEN StripPtrs(Elem(t)) ELSE t

RECURSIVE StripSlices(_)
StripSlices(t) == IF IsSliceCtor(t) THEN StripSlices(Elem(t)) ELSE t

(***************************************************************************)
(* Go values (interface{} arguments).  t is the dynamic type; nl = k > 0   *)
(* says the k-th pointer of the leading pointer chain is nil (nl = 0: none *)
(* is); rg says the slice of slices reached through the pointers has rows  *)
(* of unequal length; in is the type a wrapper value wraps.                *)
(***************************************************************************)
Val(t, nl, rg) == [t |-> t, nl |-> nl, rg |-> rg, in |-> <<>>]
Wrap(b, v) == [t |-> <<b>>, nl |-> 0, rg |-> v.rg, in |-> v.t]
PtrWrap(b, v) == [t |-> <<"ptr", b>>, nl |-> 0, rg |-> v.rg, in |-> v.t]

NilValue == Val(NilType, 0, FALSE)

IsSliceOfSlices(t) == Kind(t) = "slice" /\ ElemKind(t) = "slice"

Values ==
  {Val(t, nl, FALSE) : t \in Types, nl \in 0..MaxNest} \cup
  {Val(t, 0, TRUE) : t \in Types}

\* the values a caller can build: a nil pointer is one of the chain, and
\* only a slice of slices that is reached has rows
WellFormed(v) ==
  /\ v.nl <= PtrDepth(v.t)
  /\ v.rg => (v.nl = 0 /\ IsSliceOfSlices(StripPtrs(v.t)))

UserValues == {v \in Values : WellFormed(v)}

\* reflect.New(T).Elem() and reflect.Zero(T): the zero value of type t
Zero(t) ==
  IF t = <<"iface">> THEN NilValue
  ELSE Val(t, IF IsPtr(t) THEN 1 ELSE 0, FALSE)

IsNilPtr(v) == v.nl = 1

\* ptr.Elem().Interface(): the value a non-nil pointer points to; an
\* interface{} variable is taken to hold an int32
Pointee(v) ==
  IF Elem(v.t) = <<"iface">> THEN Val(<<"int32">>, 0, FALSE)
  ELSE [t |-> Elem(v.t), nl |-> IF v.nl = 0 THEN 0 ELSE v.nl - 1,
        rg |-> v.rg, in |-> v.in]


(***************************************************************************)
(* Codecs and type descriptors.  A codec value carries what its methods    *)
(* answer: kind names the implementation, elemOID is ElementType.OID of an *)
(* array codec (0: none), pref is the result of PreferredFormat().         *)
(***************************************************************************)
Codec(kind, elemOID, pref) == [kind |-> kind, elemOID |-> elemOID, pref |-> pref]

PreferredFormat(c) == c.pref

Type(name, oid, codec) == [Codec |-> codec, Name |-> name, OID |-> oid]

EmptyMap == [x \in {} |-> x]

Put(f, k, v) == (k :> v) @@ f

\* m.reflectTypeToType = nil
NilIndex == [built |-> FALSE, map |-> EmptyMap]

(***************************************************************************)
(* The registry operations on a Map value m.                               *)
(***************************************************************************)
\* RegisterType without the loop that deletes the memoized plans
RegisterTypeKeepingPlans(m, t) ==
  [m EXCEPT !.oidToType = Put(@, t.OID, t),
            !.nameToType = Put(@, t.Name, t),
            !.oidToFormatCode = Put(@, t.OID, PreferredFormat(t.Codec)),
            !.reflectTypeToType = NilIndex]

\* RegisterType without the update of oidToFormatCode
RegisterTypeKeepingFormat(m, t) ==
  [m EXCEPT !.oidToType = Put(@, t.OID, t),
            !.nameToType = Put(@, t.Name, t),
            !.reflectTypeToType = NilIndex,
            !.memoizedScanPlans = EmptyMap]

RegisterType(m, t) ==
  [m EXCEPT !.oidToType = Put(@, t.OID, t),
            !.nameToType = Put(@, t.Name, t),
            !.oidToFormatCode = Put(@, t.OID, PreferredFormat(t.Codec)),
            !.reflectTypeToType = NilIndex,
            !.memoizedScanPlans = EmptyMap]

\* RegisterDefaultPgType without m.reflectTypeToType = nil
RegisterDefaultPgTypeKeepingIndex(m, value, name) ==
  [m EXCEPT !.reflectTypeToName = Put(@, value.t, name),
            !.memoizedScanPlans = EmptyMap]

RegisterDefaultPgType(m, value, name) ==
  [m EXCEPT !.reflectTypeToName = Put(@, value.t, name),
            !.reflectTypeToType = NilIndex,
            !.memoizedScanPlans = EmptyMap]

\* (dt, ok) of the Go lookups is [ok |-> ..., dt |-> ...]
NoType == Type("", 0, Codec("", 0, 0))
Found(dt) == [ok |-> TRUE, dt |-> dt]
NotFound == [ok |-> FALSE, dt |-> NoType]

TypeForOID(m, oid) ==
  IF oid \in DOMAIN m.oidToType THEN Found(m.oidToType[oid]) ELSE NotFound

TypeForName(m, name) ==
  IF name \in DOMAIN m.nameToType THEN Found(m.nameToType[name]) ELSE NotFound

\* the map buildReflectTypeToType leaves in m.reflectTypeToType
buildReflectTypeToType(m) ==
  [built |-> TRUE,
   map |-> [rt \in {x \in DOMAIN m.reflectTypeToName :
                      m.reflectTypeToName[x] \in DOMAIN m.nameToType}
              |-> m.nameToType[m.reflectTypeToName[rt]]]]

\* the Map after TypeForValue: the index is built when it was nil
AfterTypeForValue(m) ==
  IF m.reflectTypeToType.built THEN m
  ELSE [m EXCEPT !.reflectTypeToType = buildReflectTypeToType(m)]

TypeForValue(m, v) ==
  LET Lookup(idx) == IF v.t \in DOMAIN idx THEN Found(idx[v.t]) ELSE NotFound
  IN  Lookup(AfterTypeForValue(m).reflectTypeToType.map)

FormatCodeForOID(m, oid) ==
  IF oid \in DOMAIN m.oidToFormatCode THEN m.oidToFormatCode[oid]
  ELSE TextFormatCode

(***************************************************************************)
(* NewMap: the registrations of the constructor, in source order, for the  *)
(* types this model keeps.                                                 *)
(***************************************************************************)
DefaultEncodePlanFuncs ==
  << "TryWrapDerefPointerEncodePlan", "TryWrapBuiltinTypeEncodePlan",
     "TryWrapFindUnderlyingTypeEncodePlan", "TryWrapStructEncodePlan",
     "TryWrapSliceEncodePlan", "TryWrapMultiDimSliceEncodePlan" >>

DefaultScanPlanFuncs ==
  << "TryPointerPointerScanPlan", "TryWrapBuiltinTypeScanPlan",
     "TryFindUnderlyingTypeScanPlan", "TryWrapStructScanPlan",
     "TryWrapPtrSliceScanPlan", "TryWrapPtrMultiDimSliceScanPlan" >>

\* the struct literal NewMap starts from
EmptyRegistry ==
  [oidToType |-> EmptyMap, nameToType |-> EmptyMap,
   reflectTypeToName |-> EmptyMap, oidToFormatCode |-> EmptyMap,
   reflectTypeToType |-> NilIndex, memoizedScanPlans |-> EmptyMap,
   TryWrapEncodePlanFuncs |-> DefaultEncodePlanFuncs,
   TryWrapScanPlanFuncs |-> DefaultScanPlanFuncs]

ArrayCodecOf(elemOID) == Codec("ArrayCodec", elemOID, BinaryFormatCode)

NewMapTypes ==
  << Type("bytea", ByteaOID, Codec("ByteaCodec", 0, BinaryFormatCode)),
     Type("char", QCharOID, Codec("QCharCodec", 0, BinaryFormatCode)),
     Type("int4", Int4OID, Codec("Int4Codec", 0, BinaryFormatCode)),
     Type("int8", Int8OID, Codec("Int8Codec", 0, BinaryFormatCode)),
     Type("name", NameOID, Codec("TextCodec", 0, TextFormatCode)),
     Type("text", TextOID, Codec("TextCodec", 0, TextFormatCode)),
     Type("varchar", VarcharOID, Codec("TextCodec", 0, TextFormatCode)),
     Type("_bytea", ByteaArrayOID, ArrayCodecOf(ByteaOID)),
     Type("_char", QCharArrayOID, ArrayCodecOf(QCharOID)),
     Type("_int4", Int4ArrayOID, ArrayCodecOf(Int4OID)),
     Type("_int8", Int8ArrayOID, ArrayCodecOf(Int8OID)),
     Type("_name", NameArrayOID, ArrayCodecOf(NameOID)),
     Type("_text", TextArrayOID, ArrayCodecOf(TextOID)) >>

\* registerDefaultPgTypeVariants: T, *T, []T, *[]T, []*T, *[]*T
registerDefaultPgTypeVariants(m, name, arrayName, t) ==
  LET m1 == RegisterDefaultPgType(m, Zero(t), name)
      m2 == RegisterDefaultPgType(m1, Zero(<<"ptr">> \o t), name)
      m3 == RegisterDefaultPgType(m2, Zero(<<"slice">> \o t), arrayName)
      m4 == RegisterDefaultPgType(m3, Zero(<<"ptr", "slice">> \o t), arrayName)
      m5 == RegisterDefaultPgType(m4, Zero(<<"slice", "ptr">> \o t), arrayName)
  IN  RegisterDefaultPgType(m5, Zero(<<"ptr", "slice", "ptr">> \o t), arrayName)

NewMapDefaults ==
  << <<"int4", "_int4", <<"int32">> >>,
     <<"int8", "_int8", <<"uint8">> >>,
     <<"text", "_text", <<"string">> >>,
     <<"bytea", "_bytea", <<"slice", "uint8">> >>,
     <<"text", "_text", <<"Text">> >> >>

RECURSIVE RegisterAll(_, _, _)
RegisterAll(m, ts, i) ==
  IF i > Len(ts) THEN m ELSE RegisterAll(RegisterType(m, ts[i]), ts, i + 1)

RECURSIVE RegisterAllDefaults(_, _, _)
RegisterAllDefaults(m, ds, i) ==
  IF i > Len(ds) THEN m
  ELSE RegisterAllDefaults(
         registerDefaultPgTypeVariants(m, ds[i][1], ds[i][2], ds[i][3]), ds, i + 1)

NewMap ==
  RegisterAllDefaults(RegisterAll(EmptyRegistry, NewMapTypes, 1), NewMapDefaults, 1)


(***************************************************************************)
(* Plans.  w lists the wrapper plans from the outermost in; term names the *)
(* innermost plan, which for a codec's plan carries the codec, oid and     *)
(* format it was made for.  A resolution that returns nil yields NilPlan,  *)
(* one that aborts (a Go panic) PanicPlan, and one that uses up the        *)
(* model's recursion budget OverflowPlan.  tfv is no part of the plan: it  *)
(* records that the resolution called TypeForValue, which builds the       *)
(* shape index when it is nil.                                             *)
(***************************************************************************)
Plan(term, codec, oid, format) ==
  [w |-> <<>>, term |-> term, codec |-> codec, oid |-> oid, fmt |-> format,
   tfv |-> FALSE]

Terminal(term) == Plan(term, "", 0, 0)
NilPlan == Terminal("nil")
PanicPlan == Terminal("panic")
OverflowPlan == Terminal("overflow")

IsNil(p) == p.term = "nil"
Aborted(p) == p.term \in {"panic", "overflow"}
Touch(p, called) == [p EXCEPT !.tfv = @ \/ called]
Strip(p) == [p EXCEPT !.tfv = FALSE]

\* wrapperPlan.SetNext(nextPlan)
SetNext(wrapper, next) == [next EXCEPT !.w = <<wrapper>> \o @]

(***************************************************************************)
(* Method sets of the Go types of the model.  A method declared on T is    *)
(* also in the method set of *T.                                           *)
(***************************************************************************)
HasMethod(t, bases) ==
  \/ Len(t) = 1 /\ t[1] \in bases
  \/ Len(t) = 2 /\ t[1] = "ptr" /\ t[2] \in bases

IsTextValuer(t) == HasMethod(t, {"Text", "stringWrapper", "fmtStringerWrapper"})
IsStringer(t) == HasMethod(t, {"StrInt"})
IsSkipUnderlyingTypePlanner(t) ==
  HasMethod(t, {"SkipInt", "int32Wrapper", "stringWrapper", "uint8Wrapper",
                "byteSliceWrapper"})
IsInt64Valuer(t) == HasMethod(t, {"int32Wrapper", "uint8Wrapper"})
IsBytesValuer(t) == HasMethod(t, {"byteSliceWrapper"})
IsCompositeIndexGetter(t) == HasMethod(t, {"structWrapper"})
IsArrayGetter(t) ==
  t \in {<<"anySliceArray">>, <<"ptr", "anySliceArray">>,
         <<"ptr", "anyMultiDimSliceArray">>}

\* struct types with at least one exported field
HasExportedFields(t) == t \in {<<"Exp">>, <<"Text">>}

\* kindToTypes: the kinds with a builtin type of their own
BuiltinKinds == {"int32", "string", "uint8"}

\* isRagged: the rows of a slice of slices differ in length
isRagged(v) == v.rg

\* IndexType of an array wrapper: the element type the codec plans for
IndexType(v) ==
  IF StripPtrs(v.t) = <<"anyMultiDimSliceArray">> THEN StripSlices(v.in)
  ELSE IF IsSliceCtor(v.in) THEN Elem(v.in)
  ELSE <<"uint8">>

(***************************************************************************)
(* The encode wrapper rules: each answers [ok, plan, next, panic].         *)
(***************************************************************************)
Claim(plan, next) == [ok |-> TRUE, plan |-> plan, next |-> next, panic |-> FALSE]
NoClaim == [ok |-> FALSE, plan |-> "", next |-> NilValue, panic |-> FALSE]
RulePanic == [ok |-> FALSE, plan |-> "", next |-> NilValue, panic |-> TRUE]

TryWrapDerefPointerEncodePlan(value) ==
  IF value.t = NilType THEN RulePanic
  ELSE IF Kind(value.t) = "ptr"
       THEN Claim("derefPointerEncodePlan", Zero(Elem(value.t)))
       ELSE NoClaim

TryWrapBuiltinTypeEncodePlan(value) ==
  CASE value.t = <<"int32">> -> Claim("wrapInt32EncodePlan", Wrap("int32Wrapper", value))
    [] value.t = <<"uint8">> -> Claim("wrapUint8EncodePlan", Wrap("uint8Wrapper", value))
    [] value.t = <<"string">> -> Claim("wrapStringEncodePlan", Wrap("stringWrapper", value))
    [] value.t = <<"slice", "uint8">> ->
         Claim("wrapByteSliceEncodePlan", Wrap("byteSliceWrapper", value))
    [] OTHER -> IF IsStringer(value.t)
                THEN Claim("wrapFmtStringerEncodePlan", Wrap("fmtStringerWrapper", value))
                ELSE NoClaim

\* TryWrapFindUnderlyingTypeEncodePlan without the SkipUnderlyingTypePlanner test
TryWrapFindUnderlyingTypeEncodePlanOfWrappers(value) ==
  IF Kind(value.t) \in BuiltinKinds /\ value.t # <<Kind(value.t)>>
  THEN Claim("underlyingTypeEncodePlan", Val(<<Kind(value.t)>>, 0, FALSE))
  ELSE NoClaim

TryWrapFindUnderlyingTypeEncodePlan(value) ==
  IF IsSkipUnderlyingTypePlanner(value.t) THEN NoClaim
  ELSE IF Kind(value.t) \in BuiltinKinds /\ value.t # <<Kind(value.t)>>
       THEN Claim("underlyingTypeEncodePlan", Val(<<Kind(value.t)>>, 0, FALSE))
       ELSE NoClaim

TryWrapStructEncodePlan(value) ==
  IF value.t = NilType THEN RulePanic
  ELSE IF Kind(value.t) = "struct" /\ HasExportedFields(value.t)
       THEN Claim("wrapAnyStructEncodePlan", Wrap("structWrapper", value))
       ELSE NoClaim

TryWrapSliceEncodePlan(value) ==
  IF value.t = NilType THEN RulePanic
  ELSE IF Kind(value.t) = "slice"
       THEN Claim("wrapSliceEncodePlan", Wrap("anySliceArray", value))
       ELSE NoClaim

TryWrapMultiDimSliceEncodePlan(value) ==
  IF Kind(value.t) = "slice" /\ ElemKind(value.t) = "slice" /\ ~isRagged(value)
  THEN Claim("wrapMultiDimSliceEncodePlan", PtrWrap("anyMultiDimSliceArray", value))
  ELSE NoClaim

\* calling one function of m.TryWrapEncodePlanFuncs
TryWrapEncodePlanFunc(f, value) ==
  CASE f = "TryWrapDerefPointerEncodePlan" -> TryWrapDerefPointerEncodePlan(value)
    [] f = "TryWrapBuiltinTypeEncodePlan" -> TryWrapBuiltinTypeEncodePlan(value)
    [] f = "TryWrapFindUnderlyingTypeEncodePlan" -> TryWrapFindUnderlyingTypeEncodePlan(value)
    [] f = "TryWrapStructEncodePlan" -> TryWrapStructEncodePlan(value)
    [] f = "TryWrapSliceEncodePlan" -> TryWrapSliceEncodePlan(value)
    [] f = "TryWrapMultiDimSliceEncodePlan" -> TryWrapMultiDimSliceEncodePlan(value)

(***************************************************************************)
(* PlanEncode.  The codecs' PlanEncode methods are part of the repository  *)
(* but not of pgtype.go: CodecAcceptsEncode states which capability each   *)
(* codec plans for, and an array codec plans when its element type does.   *)
(***************************************************************************)
CodecAcceptsEncode(kind, format, t) ==
  CASE kind \in {"Int4Codec", "Int8Codec"} ->
         IsInt64Valuer(t) \/ (kind = "Int4Codec" /\ t = <<"int32">>)
    [] kind = "TextCodec" -> t = <<"string">> \/ IsTextValuer(t)
    [] kind = "ByteaCodec" -> t = <<"slice", "uint8">> \/ IsBytesValuer(t)
    [] kind = "CompositeCodec" -> IsCompositeIndexGetter(t)
    [] OTHER -> FALSE

RECURSIVE PlanEncode(_, _, _, _, _)
RECURSIVE CodecPlanEncode(_, _, _, _, _, _)
RECURSIVE planEncodeWrapped(_, _, _, _, _, _, _)

CodecPlanEncode(m, codec, oid, format, value, fuel) ==
  LET Array(elementPlan) ==
        IF Aborted(elementPlan) THEN elementPlan
        ELSE IF IsNil(elementPlan) THEN elementPlan
        ELSE Touch(Plan("codec", codec.kind, oid, format), elementPlan.tfv)
  IN  IF codec.kind = "ArrayCodec"
      THEN IF ~IsArrayGetter(value.t) THEN NilPlan
           ELSE Array(PlanEncode(m, codec.elemOID, format, Zero(IndexType(value)), fuel))
      ELSE IF CodecAcceptsEncode(codec.kind, format, value.t)
           THEN Plan("codec", codec.kind, oid, format)
           ELSE NilPlan

\* the loop over m.TryWrapEncodePlanFuncs giving up at the first function
\* that claims the value
RECURSIVE planEncodeWrappedFirstClaim(_, _, _, _, _, _, _)
planEncodeWrappedFirstClaim(m, oid, format, value, i, fuel, called) ==
  LET Chain(try, nextPlan) ==
        IF Aborted(nextPlan) THEN Touch(nextPlan, called)
        ELSE IF ~IsNil(nextPlan) THEN Touch(SetNext(try.plan, nextPlan), called)
        ELSE Touch(NilPlan, called \/ nextPlan.tfv)
      Tried(try) ==
        IF try.panic THEN Touch(PanicPlan, called)
        ELSE IF ~try.ok
        THEN planEncodeWrappedFirstClaim(m, oid, format, value, i + 1, fuel, called)
        ELSE Chain(try, PlanEncode(m, oid, format, try.next, fuel))
  IN  IF i > Len(m.TryWrapEncodePlanFuncs) THEN Touch(NilPlan, called)
      ELSE Tried(TryWrapEncodePlanFunc(m.TryWrapEncodePlanFuncs[i], value))

\* the loop over m.TryWrapEncodePlanFuncs, from function i on: try is what
\* function i answers, nextPlan the plan for its nextValue
planEncodeWrapped(m, oid, format, value, i, fuel, called) ==
  LET Chain(try, nextPlan) ==
        IF Aborted(nextPlan) THEN Touch(nextPlan, called)
        ELSE IF ~IsNil(nextPlan) THEN Touch(SetNext(try.plan, nextPlan), called)
        ELSE planEncodeWrapped(m, oid, format, value, i + 1, fuel,
                               called \/ nextPlan.tfv)
      Tried(try) ==
        IF try.panic THEN Touch(PanicPlan, called)
        ELSE IF ~try.ok
        THEN planEncodeWrapped(m, oid, format, value, i + 1, fuel, called)
        ELSE Chain(try, PlanEncode(m, oid, format, try.next, fuel))
  IN  IF i > Len(m.TryWrapEncodePlanFuncs) THEN Touch(NilPlan, called)
      ELSE Tried(TryWrapEncodePlanFunc(m.TryWrapEncodePlanFuncs[i], value))

\* PlanEncode with the string fast path taken for oid 0 only
PlanEncodeStringByOID(m, oid, format, value, fuel) ==
  LET WithPlan(oid2, plan) ==
        IF ~IsNil(plan) THEN Touch(plan, oid = 0)
        ELSE planEncodeWrapped(m, oid2, format, value, 1, fuel - 1,
                               oid = 0 \/ plan.tfv)
      WithOID(found, oid2) ==
        WithPlan(oid2,
                 IF found.ok
                 THEN CodecPlanEncode(m, found.dt.Codec, oid2, format, value, fuel - 1)
                 ELSE NilPlan)
      WithType(found) ==
        WithOID(found, IF oid = 0 /\ found.ok THEN found.dt.OID ELSE oid)
  IN  IF fuel = 0 THEN OverflowPlan
      ELSE IF format = TextFormatCode /\ value.t = <<"string">> /\ oid = 0
      THEN Terminal("encodePlanStringToAnyTextFormat")
      ELSE IF format = TextFormatCode /\ IsTextValuer(value.t)
      THEN Terminal("encodePlanTextValuerToAnyTextFormat")
      ELSE WithType(IF oid = 0 THEN TypeForValue(m, value) ELSE TypeForOID(m, oid))

\* PlanEncode without oid = dt.OID
PlanEncodeKeepingOID(m, oid, format, value, fuel) ==
  LET WithPlan(plan) ==
        IF ~IsNil(plan) THEN Touch(plan, oid = 0)
        ELSE planEncodeWrapped(m, oid, format, value, 1, fuel - 1,
                               oid = 0 \/ plan.tfv)
      WithType(found) ==
        WithPlan(IF found.ok
                 THEN CodecPlanEncode(m, found.dt.Codec, oid, format, value, fuel - 1)
                 ELSE NilPlan)
  IN  IF fuel = 0 THEN OverflowPlan
      ELSE IF format = TextFormatCode /\ value.t = <<"string">>
      THEN Terminal("encodePlanStringToAnyTextFormat")
      ELSE IF format = TextFormatCode /\ IsTextValuer(value.t)
      THEN Terminal("encodePlanTextValuerToAnyTextFormat")
      ELSE WithType(IF oid = 0 THEN TypeForValue(m, value) ELSE TypeForOID(m, oid))

\* found is the descriptor looked up, oid2 the oid after the lookup, plan what
\* the descriptor's codec plans
PlanEncode(m, oid, format, value, fuel) ==
  LET WithPlan(oid2, plan) ==
        IF ~IsNil(plan) THEN Touch(plan, oid = 0)
        ELSE planEncodeWrapped(m, oid2, format, value, 1, fuel - 1,
                               oid = 0 \/ plan.tfv)
      WithOID(found, oid2) ==
        WithPlan(oid2,
                 IF found.ok
                 THEN CodecPlanEncode(m, found.dt.Codec, oid2, format, value, fuel - 1)
                 ELSE NilPlan)
      WithType(found) ==
        WithOID(found, IF oid = 0 /\ found.ok THEN found.dt.OID ELSE oid)
  IN  IF fuel = 0 THEN OverflowPlan
      ELSE IF format = TextFormatCode /\ value.t = <<"string">>
      THEN Terminal("encodePlanStringToAnyTextFormat")
      ELSE IF format = TextFormatCode /\ IsTextValuer(value.t)
      THEN Terminal("encodePlanTextValuerToAnyTextFormat")
      ELSE WithType(IF oid = 0 THEN TypeForValue(m, value) ELSE TypeForOID(m, oid))

(***************************************************************************)
(* Map.Encode and the Encode methods of the plans.  An outcome is what the *)
(* caller gets: NULL (nil, nil), an error, a panic, or bytes.  The bytes   *)
(* are not computed: they are named by the innermost plan that writes them *)
(* (by), the wrappers the value went through (w, the dereferences left     *)
(* out: they change no content) and whether the content written is a       *)
(* ragged slice of slices (rg).                                            *)
(***************************************************************************)
Null == [kind |-> "null", by |-> NilPlan, w |-> <<>>, rg |-> FALSE]
Error == [kind |-> "error", by |-> NilPlan, w |-> <<>>, rg |-> FALSE]
Panic == [kind |-> "panic", by |-> NilPlan, w |-> <<>>, rg |-> FALSE]
\* the call does not return: the recursion ends when the stack is exhausted
Overflow == [kind |-> "overflow", by |-> NilPlan, w |-> <<>>, rg |-> FALSE]
Bytes(by, w, rg) == [kind |-> "bytes", by |-> by, w |-> w, rg |-> rg]

\* the value a wrapper plan's Encode hands to plan.next.Encode
Wrapped(wrapper, value) ==
  CASE wrapper = "derefPointerEncodePlan" -> Pointee(value)
    [] wrapper = "underlyingTypeEncodePlan" -> Val(<<Kind(value.t)>>, 0, FALSE)
    [] wrapper = "wrapInt32EncodePlan" -> Wrap("int32Wrapper", value)
    [] wrapper = "wrapUint8EncodePlan" -> Wrap("uint8Wrapper", value)
    [] wrapper = "wrapStringEncodePlan" -> Wrap("stringWrapper", value)
    [] wrapper = "wrapByteSliceEncodePlan" -> Wrap("byteSliceWrapper", value)
    [] wrapper = "wrapFmtStringerEncodePlan" -> Wrap("fmtStringerWrapper", value)
    [] wrapper = "wrapAnyStructEncodePlan" -> Wrap("structWrapper", value)
    [] wrapper = "wrapSliceEncodePlan" -> Wrap("anySliceArray", value)
    [] wrapper = "wrapMultiDimSliceEncodePlan" -> PtrWrap("anyMultiDimSliceArray", value)

\* plan.Encode(value, buf): through the wrappers from position i on, then the
\* innermost plan; w is the wrappers gone through
RECURSIVE EncodeWith(_, _, _, _)
EncodeWith(plan, value, i, w) ==
  IF i > Len(plan.w)
  THEN IF IsPtr(value.t) /\ IsNilPtr(value) THEN Panic
       ELSE Bytes([plan EXCEPT !.w = <<>>], w, value.rg)
  ELSE IF plan.w[i] = "derefPointerEncodePlan"
  THEN IF IsNilPtr(value) THEN Null
       ELSE EncodeWith(plan, Wrapped(plan.w[i], value), i + 1, w)
  ELSE EncodeWith(plan, Wrapped(plan.w[i], value), i + 1, Append(w, plan.w[i]))

\* driver.Valuer: Text, whose Value() is a string, and three types of the
\* caller with no exported field and no other method: the Value() of
\* ValuerOfString is a string, that of ValuerOfValuer a ValuerOfString, that
\* of ValuerOfSelf the value itself
ValuerBases == {"ValuerOfString", "ValuerOfValuer", "ValuerOfSelf"}
IsDriverValuer(t) == HasMethod(t, {"Text"} \cup ValuerBases)

\* the part of Map.Encode that follows the nil check and the driver.Valuer
\* branch: a value that is no driver.Valuer
EncodePlanned(value, plan) ==
  IF Aborted(plan) THEN Panic
  ELSE IF IsNil(plan) THEN Error
  ELSE EncodeWith(plan, value, 1, <<>>)

\* Map.Encode: [out, tfv, unwraps], what it returns, whether TypeForValue
\* ran, and the number of dv.Value() calls.  fuel is the number of calls of
\* m.Encode one within the other still followed; the call that has none
\* left stands for a recursion that does not end
RECURSIVE EncodeUnwrapping(_, _, _, _, _)
EncodeUnwrapping(m, oid, formatCode, value, fuel) ==
  LET Value(dv) ==
        CASE StripPtrs(dv.t) = <<"ValuerOfValuer">> -> Val(<<"ValuerOfString">>, 0, FALSE)
          [] StripPtrs(dv.t) = <<"ValuerOfSelf">> -> dv
          [] OTHER -> Val(<<"string">>, 0, FALSE)
      Result(out, tfv, n) == [out |-> out, tfv |-> tfv, unwraps |-> n]
      Retried(r, tfv) == Result(r.out, r.tfv \/ tfv, r.unwraps + 1)
      Planned(plan) ==
        IF IsNil(plan) /\ IsDriverValuer(value.t)
        THEN IF IsPtr(value.t) /\ IsNilPtr(value) THEN Result(Panic, plan.tfv, 0)
             ELSE Retried(EncodeUnwrapping(IF plan.tfv THEN AfterTypeForValue(m) ELSE m,
                                           oid, formatCode, Value(value), fuel - 1),
                          plan.tfv)
        ELSE Result(EncodePlanned(value, Strip(plan)), plan.tfv, 0)
  IN  IF fuel = 0 THEN Result(Overflow, FALSE, 0)
      ELSE IF value.t = NilType THEN Result(Null, FALSE, 0)
      ELSE Planned(PlanEncode(m, oid, formatCode, value, MaxFuel))

Encode(m, oid, formatCode, value) ==
  EncodeUnwrapping(m, oid, formatCode, value, MaxUnwrap).out

(***************************************************************************)
(* The scan wrapper rules.                                                 *)
(***************************************************************************)
IsTextScanner(t) == t \in {<<"ptr", "Text">>, <<"ptr", "stringWrapper">>}
\* sql.Scanner: *Text, and *ScannerOfAny, a type of the caller with no
\* exported field, no other method and no default mapping
IsSQLScanner(t) == t \in {<<"ptr", "Text">>, <<"ptr", "ScannerOfAny">>}
IsInt64Scanner(t) == t \in {<<"ptr", "int32Wrapper">>, <<"ptr", "uint8Wrapper">>}
IsBytesScanner(t) == t = <<"ptr", "byteSliceWrapper">>
IsCompositeIndexScanner(t) == t = <<"ptr", "ptrStructWrapper">>
IsArraySetter(t) ==
  t \in {<<"ptr", "anySliceArray">>, <<"ptr", "anyMultiDimSliceArray">>}

\* (*W)(target): the same pointer seen as a pointer to wrapper type b
PtrConvert(b, target) ==
  [t |-> <<"ptr", b>>, nl |-> target.nl, rg |-> target.rg, in |-> Elem(target.t)]

\* reflect.New(t).Interface(): a pointer to a fresh zero value
PtrToZero(t) == Val(<<"ptr">> \o t, IF IsPtr(t) THEN 2 ELSE 0, FALSE)

TryPointerPointerScanPlan(target) ==
  IF Kind(target.t) = "ptr" /\ ~IsNilPtr(target) /\ Kind(Elem(target.t)) = "ptr"
  THEN Claim("pointerPointerScanPlan", Zero(Elem(target.t)))
  ELSE NoClaim

TryWrapBuiltinTypeScanPlan(target) ==
  CASE target.t = <<"ptr", "int32">> ->
         Claim("wrapInt32ScanPlan", PtrConvert("int32Wrapper", target))
    [] target.t = <<"ptr", "uint8">> ->
         Claim("wrapUint8ScanPlan", PtrConvert("uint8Wrapper", target))
    [] target.t = <<"ptr", "string">> ->
         Claim("wrapStringScanPlan", PtrConvert("stringWrapper", target))
    [] target.t = <<"ptr", "slice", "uint8">> ->
         Claim("wrapByteSliceScanPlan", PtrConvert("byteSliceWrapper", target))
    [] OTHER -> NoClaim

\* elemKindToPointerTypes, and *[]byte for a slice of bytes
nextDstType(target) ==
  LET elem == Elem(target.t)
  IN  IF Kind(elem) \in BuiltinKinds THEN <<"ptr", Kind(elem)>>
      ELSE IF Kind(elem) = "slice" /\ ElemKind(elem) = "uint8"
      THEN <<"ptr", "slice", "uint8">>
      ELSE <<>>

TryFindUnderlyingTypeScanPlan(dst) ==
  IF IsSkipUnderlyingTypePlanner(dst.t) THEN NoClaim
  ELSE IF Kind(dst.t) = "ptr" /\ ~IsNilPtr(dst)
          /\ nextDstType(dst) # <<>> /\ dst.t # nextDstType(dst)
       THEN Claim("underlyingTypeScanPlan",
                  [t |-> nextDstType(dst), nl |-> 0, rg |-> FALSE, in |-> <<>>])
       ELSE NoClaim

TryWrapStructScanPlan(target) ==
  IF Kind(target.t) # "ptr" THEN NoClaim
  ELSE IF IsNilPtr(target) THEN RulePanic
  ELSE IF Kind(Elem(target.t)) = "struct" /\ HasExportedFields(Elem(target.t))
       THEN Claim("wrapAnyPtrStructScanPlan", PtrWrap("ptrStructWrapper", target))
       ELSE NoClaim

TryWrapPtrSliceScanPlan(target) ==
  IF Kind(target.t) = "ptr" /\ ~IsNilPtr(target) /\ Kind(Elem(target.t)) = "slice"
  THEN Claim("wrapPtrSliceScanPlan", PtrWrap("anySliceArray", Pointee(target)))
  ELSE NoClaim

TryWrapPtrMultiDimSliceScanPlan(target) ==
  IF /\ Kind(target.t) = "ptr" /\ ~IsNilPtr(target)
     /\ Kind(Elem(target.t)) = "slice" /\ ElemKind(Elem(target.t)) = "slice"
     /\ ~isRagged(Pointee(target))
  THEN Claim("wrapPtrMultiDimSliceScanPlan",
             PtrWrap("anyMultiDimSliceArray", Pointee(target)))
  ELSE NoClaim

\* calling one function of m.TryWrapScanPlanFuncs
TryWrapScanPlanFunc(f, target) ==
  CASE f = "TryPointerPointerScanPlan" -> TryPointerPointerScanPlan(target)
    [] f = "TryWrapBuiltinTypeScanPlan" -> TryWrapBuiltinTypeScanPlan(target)
    [] f = "TryFindUnderlyingTypeScanPlan" -> TryFindUnderlyingTypeScanPlan(target)
    [] f = "TryWrapStructScanPlan" -> TryWrapStructScanPlan(target)
    [] f = "TryWrapPtrSliceScanPlan" -> TryWrapPtrSliceScanPlan(target)
    [] f = "TryWrapPtrMultiDimSliceScanPlan" -> TryWrapPtrMultiDimSliceScanPlan(target)

(***************************************************************************)
(* planScan and the memoizing PlanScan.  As on the encode side, the        *)
(* codecs' PlanScan methods are stated by the capability each plans for.   *)
(***************************************************************************)
CodecAcceptsScan(kind, format, t) ==
  CASE kind \in {"Int4Codec", "Int8Codec"} ->
         IsInt64Scanner(t) \/ (kind = "Int4Codec" /\ t = <<"ptr", "int32">>)
    [] kind = "TextCodec" -> t = <<"ptr", "string">> \/ IsTextScanner(t)
    [] kind = "ByteaCodec" -> t = <<"ptr", "slice", "uint8">> \/ IsBytesScanner(t)
    [] kind = "CompositeCodec" -> IsCompositeIndexScanner(t)
    [] OTHER -> FALSE

RECURSIVE planScan(_, _, _, _, _)
RECURSIVE CodecPlanScan(_, _, _, _, _, _)
RECURSIVE planScanWrapped(_, _, _, _, _, _, _)

CodecPlanScan(m, codec, oid, format, target, fuel) ==
  LET Array(elementScanPlan) ==
        IF Aborted(elementScanPlan) THEN elementScanPlan
        ELSE IF elementScanPlan.term = "scanPlanFail"
        THEN Touch(NilPlan, elementScanPlan.tfv)
        ELSE Touch(Plan("codec", codec.kind, oid, format), elementScanPlan.tfv)
  IN  IF codec.kind = "ArrayCodec"
      THEN IF ~IsArraySetter(target.t) THEN NilPlan
           ELSE Array(planScan(m, codec.elemOID, format,
                               PtrToZero(IndexType(target)), fuel))
      ELSE IF CodecAcceptsScan(codec.kind, format, target.t)
           THEN Plan("codec", codec.kind, oid, format)
           ELSE NilPlan

\* the loop over m.TryWrapScanPlanFuncs, from function i on; NilPlan when
\* no function led to a plan.  try is what function i answers, nextPlan the
\* plan for its nextDst
planScanWrapped(m, oid, format, target, i, fuel, called) ==
  LET Chain(try, nextPlan) ==
        IF Aborted(nextPlan) THEN Touch(nextPlan, called)
        ELSE IF ~IsNil(nextPlan) /\ nextPlan.term # "scanPlanFail"
        THEN Touch(SetNext(try.plan, nextPlan), called)
        ELSE planScanWrapped(m, oid, format, target, i + 1, fuel,
                             called \/ nextPlan.tfv)
      Tried(try) ==
        IF try.panic THEN Touch(PanicPlan, called)
        ELSE IF ~try.ok
        THEN planScanWrapped(m, oid, format, target, i + 1, fuel, called)
        ELSE Chain(try, planScan(m, oid, format, try.next, fuel))
  IN  IF i > Len(m.TryWrapScanPlanFuncs) THEN Touch(NilPlan, called)
      ELSE Tried(TryWrapScanPlanFunc(m.TryWrapScanPlanFuncs[i], target))

\* planScan without the oid != ByteaOID test of the *[]byte fast path
planScanBytesOfAnyOID(m, oid, formatCode, target, fuel) ==
  LET Last(byOID, found, oid2, wrapped) ==
        IF ~IsNil(wrapped) THEN Touch(wrapped, ~byOID.ok)
        ELSE Touch(
               IF found.ok /\ target.t = <<"ptr", "iface">>
               THEN Plan("pointerEmptyInterfaceScanPlan", found.dt.Codec.kind,
                         oid2, formatCode)
               ELSE IF found.ok /\ IsSQLScanner(target.t)
               THEN Plan("scanPlanCodecSQLScanner", found.dt.Codec.kind,
                         oid2, formatCode)
               ELSE IF IsSQLScanner(target.t)
               THEN Plan("scanPlanSQLScanner", "", 0, formatCode)
               ELSE Plan("scanPlanFail", "", oid2, formatCode),
               wrapped.tfv)
      WithPlan(byOID, found, oid2, plan) ==
        Last(byOID, found, oid2,
             IF ~IsNil(plan) THEN plan
             ELSE planScanWrapped(m, oid2, formatCode, target, 1, fuel - 1,
                                  ~byOID.ok \/ plan.tfv))
      WithOID(byOID, found, oid2) ==
        WithPlan(byOID, found, oid2,
                 IF found.ok
                 THEN CodecPlanScan(m, found.dt.Codec, oid2, formatCode, target, fuel - 1)
                 ELSE NilPlan)
      WithType(byOID, found) ==
        WithOID(byOID, found, IF ~byOID.ok /\ found.ok THEN found.dt.OID ELSE oid)
      Lookup(byOID) ==
        WithType(byOID, IF byOID.ok THEN byOID ELSE TypeForValue(m, target))
  IN  IF fuel = 0 THEN OverflowPlan
      ELSE IF target.t = <<"ptr", "UndecodedBytes">>
      THEN Terminal("scanPlanAnyToUndecodedBytes")
      ELSE IF /\ formatCode = BinaryFormatCode /\ target.t = <<"ptr", "string">>
              /\ oid \in {TextOID, VarcharOID}
      THEN Terminal("scanPlanString")
      ELSE IF formatCode = TextFormatCode /\ target.t = <<"ptr", "string">>
      THEN Terminal("scanPlanString")
      ELSE IF formatCode = TextFormatCode /\ target.t = <<"ptr", "slice", "uint8">>
      THEN Terminal("scanPlanAnyTextToBytes")
      ELSE IF formatCode = TextFormatCode /\ IsTextScanner(target.t)
      THEN Terminal("scanPlanTextAnyToTextScanner")
      ELSE Lookup(TypeForOID(m, oid))

\* byOID is what TypeForOID finds, found the descriptor used (dt), oid2 the
\* oid after the lookups, plan what the codec plans, wrapped the plan of the
\* codec or else of the loop
planScan(m, oid, formatCode, target, fuel) ==
  LET Last(byOID, found, oid2, wrapped) ==
        IF ~IsNil(wrapped) THEN Touch(wrapped, ~byOID.ok)
        ELSE Touch(
               IF found.ok /\ target.t = <<"ptr", "iface">>
               THEN Plan("pointerEmptyInterfaceScanPlan", found.dt.Codec.kind,
                         oid2, formatCode)
               ELSE IF found.ok /\ IsSQLScanner(target.t)
               THEN Plan("scanPlanCodecSQLScanner", found.dt.Codec.kind,
                         oid2, formatCode)
               ELSE IF IsSQLScanner(target.t)
               THEN Plan("scanPlanSQLScanner", "", 0, formatCode)
               ELSE Plan("scanPlanFail", "", oid2, formatCode),
               wrapped.tfv)
      WithPlan(byOID, found, oid2, plan) ==
        Last(byOID, found, oid2,
             IF ~IsNil(plan) THEN plan
             ELSE planScanWrapped(m, oid2, formatCode, target, 1, fuel - 1,
                                  ~byOID.ok \/ plan.tfv))
      WithOID(byOID, found, oid2) ==
        WithPlan(byOID, found, oid2,
                 IF found.ok
                 THEN CodecPlanScan(m, found.dt.Codec, oid2, formatCode, target, fuel - 1)
                 ELSE NilPlan)
      WithType(byOID, found) ==
        WithOID(byOID, found, IF ~byOID.ok /\ found.ok THEN found.dt.OID ELSE oid)
      Lookup(byOID) ==
        WithType(byOID, IF byOID.ok THEN byOID ELSE TypeForValue(m, target))
  IN  IF fuel = 0 THEN OverflowPlan
      ELSE IF target.t = <<"ptr", "UndecodedBytes">>
      THEN Terminal("scanPlanAnyToUndecodedBytes")
      ELSE IF /\ formatCode = BinaryFormatCode /\ target.t = <<"ptr", "string">>
              /\ oid \in {TextOID, VarcharOID}
      THEN Terminal("scanPlanString")
      ELSE IF formatCode = TextFormatCode /\ target.t = <<"ptr", "string">>
      THEN Terminal("scanPlanString")
      ELSE IF /\ formatCode = TextFormatCode /\ target.t = <<"ptr", "slice", "uint8">>
              /\ oid # ByteaOID
      THEN Terminal("scanPlanAnyTextToBytes")
      ELSE IF formatCode = TextFormatCode /\ IsTextScanner(target.t)
      THEN Terminal("scanPlanTextAnyToTextScanner")
      ELSE Lookup(TypeForOID(m, oid))

\* [2]ScanPlan{}: no plan for either format
NoPlans == <<NilPlan, NilPlan>>

\* the oid's entry of m.memoizedScanPlans once PlanScan has made sure of it
oidMemoOf(m, oid) ==
  IF oid \in DOMAIN m.memoizedScanPlans THEN m.memoizedScanPlans[oid] ELSE EmptyMap

typeMemoOf(m, oid, t) ==
  IF t \in DOMAIN oidMemoOf(m, oid) THEN oidMemoOf(m, oid)[t] ELSE NoPlans

\* PlanScan without oidMemo[targetReflectType] = typeMemo
PlanScanNotStoring(m, oid, formatCode, target) ==
  LET Miss(m1, plan) ==
        [m |-> IF plan.tfv THEN AfterTypeForValue(m1) ELSE m1,
         plan |-> Strip(plan), resolved |-> TRUE]
      Memo(m1, typeMemo) ==
        IF formatCode \notin {0, 1}
        THEN [m |-> m1, plan |-> PanicPlan, resolved |-> FALSE]
        ELSE IF ~IsNil(typeMemo[formatCode + 1])
        THEN [m |-> m1, plan |-> typeMemo[formatCode + 1], resolved |-> FALSE]
        ELSE Miss(m1, planScan(m, oid, formatCode, target, MaxFuel))
  IN  Memo([m EXCEPT !.memoizedScanPlans = Put(@, oid, oidMemoOf(m, oid))],
           typeMemoOf(m, oid, target.t))

\* PlanScan returns [m, plan, resolved]: the Map it leaves, the plan (or
\* PanicPlan), and whether planScan ran.  m1 is the Map once the oid's
\* entry exists, typeMemo the [2]ScanPlan of the target's type, m2 the Map
\* after planScan
PlanScan(m, oid, formatCode, target) ==
  LET Store(m2, typeMemo, plan) ==
        IF Aborted(plan) THEN [m |-> m2, plan |-> Strip(plan), resolved |-> TRUE]
        ELSE [m |-> [m2 EXCEPT !.memoizedScanPlans[oid] =
                       Put(@, target.t,
                           [typeMemo EXCEPT ![formatCode + 1] = Strip(plan)])],
              plan |-> Strip(plan), resolved |-> TRUE]
      Miss(m1, typeMemo, plan) ==
        Store(IF plan.tfv THEN AfterTypeForValue(m1) ELSE m1, typeMemo, plan)
      Memo(m1, typeMemo) ==
        IF formatCode \notin {0, 1}
        THEN [m |-> m1, plan |-> PanicPlan, resolved |-> FALSE]
        ELSE IF ~IsNil(typeMemo[formatCode + 1])
        THEN [m |-> m1, plan |-> typeMemo[formatCode + 1], resolved |-> FALSE]
        ELSE Miss(m1, typeMemo, planScan(m, oid, formatCode, target, MaxFuel))
  IN  Memo([m EXCEPT !.memoizedScanPlans = Put(@, oid, oidMemoOf(m, oid))],
           typeMemoOf(m, oid, target.t))

(***************************************************************************)
(* Map.Scan and the Scan methods of the plans.  src is the payload: "null" *)
(* (a nil slice), "empty" (non-nil, length 0) or "data".  What a scan      *)
(* leaves is [kind, nl, val]: kind is "ok", "error" or "panic"; nl is the  *)
(* nil pointer of the destination's chain afterwards (as in a value); val  *)
(* is what the innermost variable holds: "old" (not written), "zero" (of a *)
(* freshly allocated pointee), "nil" (a nil slice), "empty", "copy" (of    *)
(* the payload, in memory of its own), "alias" (memory of the payload),    *)
(* "null" (a nullable value set to NULL) or "decoded".                     *)
(***************************************************************************)
Payloads == {"null", "empty", "data"}

Scanned(kind, nl, val) == [kind |-> kind, nl |-> nl, val |-> val]

\* scanPlanString.Scan with *p = string(src) although src is nil
scanPlanStringZeroing(src, dst, val) ==
  IF IsNilPtr(dst) THEN Scanned("panic", dst.nl, val)
  ELSE Scanned("ok", dst.nl, IF src = "data" THEN "copy" ELSE "empty")

scanPlanString(src, dst, val) ==
  IF src = "null" THEN Scanned("error", dst.nl, val)
  ELSE IF IsNilPtr(dst) THEN Scanned("panic", dst.nl, val)
  ELSE Scanned("ok", dst.nl, IF src = "empty" THEN "empty" ELSE "copy")

\* scanPlanAnyTextToBytes.Scan with *dstBuf = src
scanPlanAnyTextToBytesSharing(src, dst, val) ==
  IF IsNilPtr(dst) THEN Scanned("panic", dst.nl, val)
  ELSE Scanned("ok", dst.nl,
               CASE src = "null" -> "nil" [] src = "empty" -> "empty"
                 [] OTHER -> "alias")

scanPlanAnyTextToBytes(src, dst, val) ==
  IF IsNilPtr(dst) THEN Scanned("panic", dst.nl, val)
  ELSE Scanned("ok", dst.nl,
               CASE src = "null" -> "nil" [] src = "empty" -> "empty"
                 [] OTHER -> "copy")

\* scanPlanFail.Scan answering nil for a nil src
scanPlanFailOnData(src, dst, val) ==
  Scanned(IF src = "null" THEN "ok" ELSE "error", dst.nl, val)

scanPlanFail(src, dst, val) == Scanned("error", dst.nl, val)

\* scanPlanSQLScanner.Scan with scanner.Scan(string(src)) for a nil src too
scanPlanSQLScannerOfString(formatCode, src, dst, val) ==
  IF IsNilPtr(dst) THEN Scanned("panic", dst.nl, val)
  ELSE Scanned("ok", dst.nl,
               IF formatCode = BinaryFormatCode /\ src # "null" THEN "bytes"
               ELSE "string")

\* val is what scanner.Scan is given: nil, the []byte or a string
scanPlanSQLScanner(formatCode, src, dst, val) ==
  IF IsNilPtr(dst) THEN Scanned("panic", dst.nl, val)
  ELSE Scanned("ok", dst.nl,
               IF src = "null" THEN "nil"
               ELSE IF formatCode = BinaryFormatCode THEN "bytes"
               ELSE "string")

\* the Scan of a codec's plan and of the other innermost plans: NULL goes
\* into a destination that can hold it (Text, interface{}, UndecodedBytes)
\* and is an error for any other
otherScan(src, dst, val) ==
  IF IsNilPtr(dst) THEN Scanned("panic", dst.nl, val)
  ELSE IF src # "null" THEN Scanned("ok", dst.nl, "decoded")
  ELSE IF StripPtrs(dst.t) \in {<<"Text">>, <<"iface">>, <<"UndecodedBytes">>}
       THEN Scanned("ok", dst.nl, "null")
       ELSE Scanned("error", dst.nl, val)

\* the struct, slice and multi-dimensional wrappers kept from the planning
scanTargetOfPlanning(wrapper, dst, planned) ==
  IF wrapper \in {"wrapAnyPtrStructScanPlan", "wrapPtrSliceScanPlan",
                  "wrapPtrMultiDimSliceScanPlan"}
  THEN planned ELSE dst

\* the destination a wrapper plan's Scan hands to plan.next.Scan is made of
\* the dst of this call: (*int32Wrapper)(dst), a converted dst, a fresh
\* ptrStructWrapper{s: target}, anySliceArray or anyMultiDimSliceArray of
\* reflect.ValueOf(target).Elem().  planned is the destination the rule saw
scanTarget(wrapper, dst, planned) == dst

\* plan.Scan(src, dst): through the wrappers from position i on, then the
\* innermost plan.  pointerPointerScanPlan i sets pointer i + 1 of the chain
RECURSIVE ScanWith(_, _, _, _, _)
ScanWith(plan, src, dst, i, val) ==
  LET Through(r) == Scanned(r.kind, 0, r.val)
  IN  IF i > Len(plan.w)
      THEN CASE plan.term = "scanPlanString" -> scanPlanString(src, dst, val)
             [] plan.term = "scanPlanAnyTextToBytes" ->
                  scanPlanAnyTextToBytes(src, dst, val)
             [] plan.term = "scanPlanFail" -> scanPlanFail(src, dst, val)
             [] plan.term = "scanPlanSQLScanner" ->
                  scanPlanSQLScanner(plan.fmt, src, dst, val)
             [] OTHER -> otherScan(src, dst, val)
      ELSE IF plan.w[i] = "pointerPointerScanPlan"
      THEN IF IsNilPtr(dst) THEN Scanned("panic", i, val)
           ELSE IF src = "null" THEN Scanned("ok", i + 1, val)
           ELSE Through(ScanWith(plan, src, PtrToZero(Elem(Elem(dst.t))), i + 1,
                                 "zero"))
      ELSE ScanWith(plan, src, dst, i + 1, val)

\* Map.Scan: [m, plan, out], the Map PlanScan leaves, its plan and what the
\* scan leaves
Scan(m, oid, formatCode, src, dst) ==
  LET Planned(r) ==
        [m |-> r.m, plan |-> r.plan,
         out |-> IF Aborted(r.plan) THEN Scanned("panic", dst.nl, "old")
                 ELSE ScanWith(r.plan, src, dst, 1, "old")]
  IN  IF dst.t = NilType
      THEN [m |-> m, plan |-> NilPlan, out |-> Scanned("ok", 0, "old")]
      ELSE Planned(PlanScan(m, oid, formatCode, dst))

(***************************************************************************)
(* The state machine of one Map used by one caller at a time.              *)
(*   m      the Map                                                        *)
(*   regs   registrations made since NewMap                                *)
(*   last   the last completed call: its arguments and what it returned    *)
(*   latest history: per oid, the descriptor of the latest RegisterType    *)
(*   seen   history: per (oid, type, format), the plan PlanScan returned   *)
(*          since the latest registration                                  *)
(***************************************************************************)
(*   phase  "setup" while one goroutine owns the Map, "run" once two        *)
(*          goroutines use it with no synchronisation between them,        *)
(*          "crashed" when the Go runtime has stopped the program          *)
(*   nsetup the calls made during setup                                    *)
(*   pc     per goroutine, where it is in its call                         *)
(*   loc    per goroutine, the arguments and local variables of its call   *)
(*   acc    per goroutine, the shared locations it has read and written    *)
VARIABLES m, regs, last, latest, seen, phase, nsetup, pc, loc, acc

seq == <<m, regs, last, latest, seen>>
conc == <<phase, nsetup, pc, loc, acc>>
vars == <<m, regs, last, latest, seen, phase, nsetup, pc, loc, acc>>

Procs == {1, 2}

\* a goroutine that has made no call
NoLocals ==
  [op |-> "none", oid |-> 0, fmt |-> 0, v |-> NilValue, typeMemo |-> NoPlans,
   detached |-> FALSE, plan |-> NilPlan, found |-> NotFound, todo |-> {}]

NoAccess == [r |-> {}, w |-> {}]

\* an identifier NewMap does not register
CustomOID == VarcharOID + 1

\* a completed call: resolved tells that PlanScan ran planScan, first that no
\* PlanScan with these arguments returned since the latest registration,
\* dropped how many cache entries a registration discarded, found what
\* TypeForValue returned
Call(op, oid, format, v, plan, resolved, first) ==
  [op |-> op, oid |-> oid, fmt |-> format, v |-> v, plan |-> plan,
   resolved |-> resolved, first |-> first, dropped |-> 0, found |-> NotFound]

NoCall == Call("NewMap", 0, 0, NilValue, NilPlan, FALSE, FALSE)

\* the (oid, type) entries of the cache
Entries(mm) ==
  UNION {{<<oid, t>> : t \in DOMAIN mm.memoizedScanPlans[oid]} :
           oid \in DOMAIN mm.memoizedScanPlans}

\* the descriptor NewMap registers last under each oid
RECURSIVE LatestOf(_, _, _)
LatestOf(ts, i, sofar) ==
  IF i > Len(ts) THEN sofar ELSE LatestOf(ts, i + 1, Put(sofar, ts[i].OID, ts[i]))

\* the inputs of the explored calls
\* re-registration of int4 with another codec, a new descriptor, a new name
\* under a registered oid, and a registered name under a new oid
RegTypes ==
  {Type("int4", Int4OID, Codec("TextCodec", 0, TextFormatCode)),
   Type("custom", CustomOID, Codec("Int4Codec", 0, BinaryFormatCode)),
   Type("custom", Int4OID, Codec("Int4Codec", 0, BinaryFormatCode)),
   Type("int4", CustomOID, Codec("Int4Codec", 0, BinaryFormatCode))}
RegDefaults == {<<Zero(<<"MyInt">>), "int4">>}
ScanOIDs == {Int4OID, CustomOID}
FormatCodes == {TextFormatCode, BinaryFormatCode, 2}
ScanTargets == {PtrToZero(<<"int32">>), PtrToZero(<<"MyInt">>)}

TypeForValueInputs == {Zero(<<"int32">>), Zero(<<"MyInt">>)}

Init ==
  /\ m = NewMap
  /\ regs = 0
  /\ last = NoCall
  /\ latest = LatestOf(NewMapTypes, 1, EmptyMap)
  /\ seen = EmptyMap
  /\ phase = "setup"
  /\ nsetup = 0
  /\ pc = [p \in Procs |-> "idle"]
  /\ loc = [p \in Procs |-> NoLocals]
  /\ acc = [p \in Procs |-> NoAccess]

DoRegisterType(t) ==
  /\ regs < MaxRegs
  /\ m' = RegisterType(m, t)
  /\ regs' = regs + 1
  /\ last' = [Call("RegisterType", t.OID, 0, NilValue, NilPlan, FALSE, FALSE)
                EXCEPT !.dropped = Cardinality(Entries(m))]
  /\ latest' = Put(latest, t.OID, t)
  /\ seen' = EmptyMap

DoRegisterDefaultPgType(value, name) ==
  /\ regs < MaxRegs
  /\ m' = RegisterDefaultPgType(m, value, name)
  /\ regs' = regs + 1
  /\ last' = [Call("RegisterDefaultPgType", 0, 0, value, NilPlan, FALSE, FALSE)
                EXCEPT !.dropped = Cardinality(Entries(m))]
  /\ seen' = EmptyMap
  /\ UNCHANGED latest

DoPlanScan(oid, formatCode, target) ==
  LET key == <<oid, target.t, formatCode>>
      Returned(r) ==
        /\ m' = r.m
        /\ last' = Call("PlanScan", oid, formatCode, target, r.plan, r.resolved,
                        key \notin DOMAIN seen)
        /\ seen' = IF Aborted(r.plan) \/ key \in DOMAIN seen THEN seen
                   ELSE Put(seen, key, r.plan)
  IN  /\ <<oid, target.t>> \in Entries(m) \/ Cardinality(Entries(m)) < MaxMemo
      /\ Returned(PlanScan(m, oid, formatCode, target))
      /\ UNCHANGED <<regs, latest>>

DoTypeForValue(value) ==
  /\ m' = AfterTypeForValue(m)
  /\ last' = [Call("TypeForValue", 0, 0, value, NilPlan, FALSE, FALSE)
                EXCEPT !.found = TypeForValue(m, value)]
  /\ UNCHANGED <<regs, latest, seen>>

Next ==
  \/ \E t \in RegTypes : DoRegisterType(t) /\ UNCHANGED conc
  \/ \E d \in RegDefaults : DoRegisterDefaultPgType(d[1], d[2]) /\ UNCHANGED conc
  \/ \E oid \in ScanOIDs, f \in FormatCodes, target \in ScanTargets :
       DoPlanScan(oid, f, target) /\ UNCHANGED conc
  \/ \E value \in TypeForValueInputs : DoTypeForValue(value) /\ UNCHANGED conc

Spec == Init /\ [][Next]_vars

(***************************************************************************)
(* Two goroutines using one Map.  After setup, in which one goroutine      *)
(* registers, plans and looks up, two goroutines each make one call.  The  *)
(* calls are split at their accesses to the Map's shared maps and fields:  *)
(*   PlanScan      lookup  oidMemo := m.memoizedScanPlans[oid]             *)
(*                 create  m.memoizedScanPlans[oid] = oidMemo              *)
(*                 probe   typeMemo := oidMemo[type]; typeMemo[format]     *)
(*                 resolve plan = m.planScan(...)                          *)
(*                 store   oidMemo[type] = typeMemo                        *)
(*   TypeForValue  check   m.reflectTypeToType == nil                      *)
(*                 make    m.reflectTypeToType = make(...)                 *)
(*                 fill    m.reflectTypeToType[reflectType] = dt           *)
(*                 read    m.reflectTypeToType[reflect.TypeOf(v)]          *)
(* Nothing orders the two goroutines' accesses, so a write by one and any  *)
(* access by the other to the same map or field is a data race; on a map   *)
(* the Go runtime may then stop the program ("concurrent map writes").     *)
(***************************************************************************)
MaxSetup == 2

ConcOIDs == {Int4OID, CustomOID}
ConcTargets == {PtrToZero(<<"int32">>)}
ConcValues == {Zero(<<"int32">>), Zero(<<"MyInt">>)}
SetupTypes == {Type("custom", CustomOID, Codec("Int4Codec", 0, BinaryFormatCode))}

\* the keys of the shape index the goroutines ask for; the range loop of
\* buildReflectTypeToType stores them one by one, in any order, and the
\* other entries in one step (<<"rest">>)
AskedTypes == {v.t : v \in ConcValues \cup ConcTargets}

Batch(mm, k) ==
  LET full == buildReflectTypeToType(mm).map
  IN  IF k = <<"rest">> THEN DOMAIN full \ AskedTypes ELSE {k} \cap DOMAIN full

Batches(mm) == {k \in AskedTypes \cup {<<"rest">>} : Batch(mm, k) # {}}

\* the shared locations: the map m.memoizedScanPlans, the map it holds for
\* an oid, and the field m.reflectTypeToType with the map it points to
memoizedScanPlans == <<"memoizedScanPlans", 0>>
oidMemo(oid) == <<"oidMemo", oid>>
reflectTypeToType == <<"reflectTypeToType", 0>>

Read(a, x) == [a EXCEPT !.r = @ \cup {x}]
Write(a, x) == [a EXCEPT !.w = @ \cup {x}]

\* one setup call of the goroutine that owns the Map
Setup ==
  /\ phase = "setup"
  /\ nsetup < MaxSetup
  /\ nsetup' = nsetup + 1
  /\ \/ \E t \in SetupTypes : DoRegisterType(t)
     \/ \E d \in RegDefaults : DoRegisterDefaultPgType(d[1], d[2])
     \/ \E oid \in ConcOIDs, target \in ConcTargets :
          DoPlanScan(oid, BinaryFormatCode, target)
     \/ \E value \in ConcValues : DoTypeForValue(value)
  /\ UNCHANGED <<phase, pc, loc, acc>>

\* go func() { ... }() twice: setup is over
Spawn ==
  /\ phase = "setup"
  /\ phase' = "run"
  /\ UNCHANGED <<seq, nsetup, pc, loc, acc>>

StartPlanScan(p, oid, formatCode, target) ==
  /\ phase = "run"
  /\ pc[p] = "idle"
  /\ pc' = [pc EXCEPT ![p] = "lookup"]
  /\ loc' = [loc EXCEPT ![p] = [NoLocals EXCEPT !.op = "PlanScan", !.oid = oid,
                                               !.fmt = formatCode, !.v = target]]
  /\ UNCHANGED <<seq, phase, nsetup, acc>>

PlanScanLookup(p) ==
  /\ phase = "run"
  /\ pc[p] = "lookup"
  /\ acc' = [acc EXCEPT ![p] = Read(@, memoizedScanPlans)]
  /\ pc' = [pc EXCEPT ![p] = IF loc[p].oid \in DOMAIN m.memoizedScanPlans
                            THEN "probe" ELSE "create"]
  /\ UNCHANGED <<seq, phase, nsetup, loc>>

\* the new map replaces one another goroutine stored for the oid meanwhile:
\* that goroutine keeps its own map, which the Map no longer holds
PlanScanCreate(p) ==
  /\ phase = "run"
  /\ pc[p] = "create"
  /\ m' = [m EXCEPT !.memoizedScanPlans = Put(@, loc[p].oid, EmptyMap)]
  /\ acc' = [acc EXCEPT ![p] = Write(@, memoizedScanPlans)]
  /\ loc' = [q \in Procs |->
               IF q # p /\ loc[q].op = "PlanScan" /\ loc[q].oid = loc[p].oid
                  /\ pc[q] \in {"probe", "resolve", "store"}
               THEN [loc[q] EXCEPT !.detached = TRUE] ELSE loc[q]]
  /\ pc' = [pc EXCEPT ![p] = "probe"]
  /\ UNCHANGED <<regs, last, latest, seen, phase, nsetup>>

PlanScanProbe(p) ==
  LET Probe(typeMemo) ==
        /\ loc' = [loc EXCEPT ![p].typeMemo = typeMemo,
                              ![p].plan = IF loc[p].fmt \notin {0, 1} THEN PanicPlan
                                          ELSE typeMemo[loc[p].fmt + 1]]
        /\ pc' = [pc EXCEPT ![p] =
                    IF loc[p].fmt \notin {0, 1} THEN "done"
                    ELSE IF ~IsNil(typeMemo[loc[p].fmt + 1]) THEN "done"
                    ELSE "resolve"]
  IN  /\ phase = "run"
      /\ pc[p] = "probe"
      /\ acc' = [acc EXCEPT ![p] = Read(@, oidMemo(loc[p].oid))]
      /\ Probe(IF loc[p].detached THEN NoPlans
               ELSE typeMemoOf(m, loc[p].oid, loc[p].v.t))
      /\ UNCHANGED <<seq, phase, nsetup>>

\* planScan reads the registry and, where it calls TypeForValue, the shape
\* index, which it builds when it finds it nil
PlanScanResolve(p) ==
  LET Resolved(plan) ==
        /\ loc' = [loc EXCEPT ![p].plan = Strip(plan)]
        /\ pc' = [pc EXCEPT ![p] = IF Aborted(plan) THEN "done" ELSE "store"]
        /\ m' = IF plan.tfv THEN AfterTypeForValue(m) ELSE m
        /\ acc' = [acc EXCEPT ![p] =
                     IF ~plan.tfv THEN @
                     ELSE IF m.reflectTypeToType.built
                     THEN Read(@, reflectTypeToType)
                     ELSE Write(Read(@, reflectTypeToType), reflectTypeToType)]
  IN  /\ phase = "run"
      /\ pc[p] = "resolve"
      /\ Resolved(planScan(m, loc[p].oid, loc[p].fmt, loc[p].v, MaxFuel))
      /\ UNCHANGED <<regs, last, latest, seen, phase, nsetup>>

PlanScanStore(p) ==
  /\ phase = "run"
  /\ pc[p] = "store"
  /\ acc' = [acc EXCEPT ![p] = Write(@, oidMemo(loc[p].oid))]
  /\ m' = IF loc[p].detached THEN m
          ELSE [m EXCEPT !.memoizedScanPlans[loc[p].oid] =
                  Put(@, loc[p].v.t,
                      [loc[p].typeMemo EXCEPT ![loc[p].fmt + 1] = loc[p].plan])]
  /\ pc' = [pc EXCEPT ![p] = "done"]
  /\ UNCHANGED <<regs, last, latest, seen, phase, nsetup, loc>>

StartTypeForValue(p, value) ==
  /\ phase = "run"
  /\ pc[p] = "idle"
  /\ pc' = [pc EXCEPT ![p] = "check"]
  /\ loc' = [loc EXCEPT ![p] = [NoLocals EXCEPT !.op = "TypeForValue", !.v = value]]
  /\ UNCHANGED <<seq, phase, nsetup, acc>>

TypeForValueCheck(p) ==
  /\ phase = "run"
  /\ pc[p] = "check"
  /\ acc' = [acc EXCEPT ![p] = Read(@, reflectTypeToType)]
  /\ pc' = [pc EXCEPT ![p] = IF m.reflectTypeToType.built THEN "read" ELSE "make"]
  /\ UNCHANGED <<seq, phase, nsetup, loc>>

buildReflectTypeToTypeMake(p) ==
  /\ phase = "run"
  /\ pc[p] = "make"
  /\ m' = [m EXCEPT !.reflectTypeToType = [built |-> TRUE, map |-> EmptyMap]]
  /\ acc' = [acc EXCEPT ![p] = Write(@, reflectTypeToType)]
  /\ loc' = [loc EXCEPT ![p].todo = Batches(m)]
  /\ pc' = [pc EXCEPT ![p] = IF Batches(m) = {} THEN "read" ELSE "fill"]
  /\ UNCHANGED <<regs, last, latest, seen, phase, nsetup>>

\* the stores go to the map the field holds now, which another goroutine
\* may have made
buildReflectTypeToTypeFill(p, k) ==
  /\ phase = "run"
  /\ pc[p] = "fill"
  /\ k \in loc[p].todo
  /\ m' = [m EXCEPT !.reflectTypeToType.map =
             [rt \in DOMAIN @ \cup Batch(m, k) |->
                IF rt \in Batch(m, k) THEN m.nameToType[m.reflectTypeToName[rt]]
                ELSE @[rt]]]
  /\ acc' = [acc EXCEPT ![p] = Write(Read(@, reflectTypeToType), reflectTypeToType)]
  /\ loc' = [loc EXCEPT ![p].todo = @ \ {k}]
  /\ pc' = [pc EXCEPT ![p] = IF loc[p].todo = {k} THEN "read" ELSE "fill"]
  /\ UNCHANGED <<regs, last, latest, seen, phase, nsetup>>

TypeForValueRead(p) ==
  /\ phase = "run"
  /\ pc[p] = "read"
  /\ acc' = [acc EXCEPT ![p] = Read(@, reflectTypeToType)]
  /\ loc' = [loc EXCEPT ![p].found =
               IF loc[p].v.t \in DOMAIN m.reflectTypeToType.map
               THEN Found(m.reflectTypeToType.map[loc[p].v.t]) ELSE NotFound]
  /\ pc' = [pc EXCEPT ![p] = "done"]
  /\ UNCHANGED <<seq, phase, nsetup>>

\* two goroutines have made conflicting accesses that nothing orders
RacedOn(x) ==
  \E p, q \in Procs : p # q /\ x \in acc[p].w /\ x \in acc[q].r \cup acc[q].w

Raced == \E p \in Procs : \E x \in acc[p].w : RacedOn(x)

\* fatal error: concurrent map writes / concurrent map read and map write
Crash ==
  /\ phase = "run"
  /\ Raced
  /\ phase' = "crashed"
  /\ UNCHANGED <<seq, nsetup, pc, loc, acc>>

NextConc ==
  \/ Setup
  \/ Spawn
  \/ \E p \in Procs, oid \in ConcOIDs, target \in ConcTargets :
       StartPlanScan(p, oid, BinaryFormatCode, target)
  \/ \E p \in Procs : PlanScanLookup(p)
  \/ \E p \in Procs : PlanScanCreate(p)
  \/ \E p \in Procs : PlanScanProbe(p)
  \/ \E p \in Procs : PlanScanResolve(p)
  \/ \E p \in Procs : PlanScanStore(p)
  \/ \E p \in Procs, value \in ConcValues : StartTypeForValue(p, value)
  \/ \E p \in Procs : TypeForValueCheck(p)
  \/ \E p \in Procs : buildReflectTypeToTypeMake(p)
  \/ \E p \in Procs, k \in AskedTypes \cup {<<"rest">>} : buildReflectTypeToTypeFill(p, k)
  \/ \E p \in Procs : TypeForValueRead(p)
  \/ Crash

SpecConc == Init /\ [][NextConc]_vars

(***************************************************************************)
(* Resolution and encoding of one value or destination.  The Map is one a  *)
(* caller can have built; the arguments are drawn from every shape of up   *)
(* to MaxNest constructors.  last holds the arguments of the call, then    *)
(* what it returned: plan for PlanEncode and PlanScan, out for Encode.     *)
(* A state whose op is "shape" starts a descent: the steps follow the      *)
(* value one rule after the other hands to the recursive resolution, path  *)
(* being the values handed on so far.                                      *)
(***************************************************************************)
EncRegistries ==
  {NewMap,
   RegisterDefaultPgType(
     RegisterType(NewMap, Type("custom", CustomOID,
                               Codec("CompositeCodec", 0, BinaryFormatCode))),
     Zero(<<"MyInt">>), "int4"),
   RegisterType(NewMap, Type("custom", CustomOID, ArrayCodecOf(CustomOID)))}

EncOIDs ==
  {0, ByteaOID, Int4OID, TextOID, Int4ArrayOID, ByteaArrayOID, VarcharOID, CustomOID}

\* the sql.Scanner of the caller
ScannerValues == {Val(<<"ptr", "ScannerOfAny">>, 0, FALSE)}

\* the driver.Valuers of the caller
ValuerValues == {Val(<<b>>, 0, FALSE) : b \in ValuerBases}

Args(op, oid, formatCode, v) ==
  [op |-> op, oid |-> oid, fmt |-> formatCode, v |-> v, plan |-> NilPlan,
   out |-> Error, path |-> <<>>, src |-> "none", unwraps |-> 0]

InitEnc ==
  /\ m \in EncRegistries
  /\ last \in {Args("args", oid, formatCode, v) :
                 oid \in EncOIDs,
                 formatCode \in {TextFormatCode, BinaryFormatCode},
                 v \in UserValues \cup ValuerValues \cup ScannerValues}
               \cup {Args("shape", 0, TextFormatCode, v) : v \in UserValues}
  /\ regs = 0
  /\ latest = EmptyMap
  /\ seen = EmptyMap
  /\ phase = "setup"
  /\ nsetup = 0
  /\ pc = [p \in Procs |-> "idle"]
  /\ loc = [p \in Procs |-> NoLocals]
  /\ acc = [p \in Procs |-> NoAccess]

\* m.PlanEncode(oid, formatCode, value)
ResolveEncode ==
  LET Returned(plan) ==
        /\ m' = IF plan.tfv THEN AfterTypeForValue(m) ELSE m
        /\ last' = [last EXCEPT !.op = "PlanEncode", !.plan = Strip(plan)]
  IN  /\ last.op = "args"
      /\ Returned(PlanEncode(m, last.oid, last.fmt, last.v, MaxFuel))
      /\ UNCHANGED <<regs, latest, seen>>

\* m.Encode(oid, formatCode, value, buf)
RunEncode ==
  LET Returned(plan, r) ==
        /\ m' = IF r.tfv THEN AfterTypeForValue(m) ELSE m
        /\ last' = [last EXCEPT !.op = "Encode", !.plan = Strip(plan),
                                !.out = r.out, !.unwraps = r.unwraps]
  IN  /\ last.op = "args"
      /\ Returned(IF last.v.t = NilType THEN NilPlan
                  ELSE PlanEncode(m, last.oid, last.fmt, last.v, MaxFuel),
                  EncodeUnwrapping(m, last.oid, last.fmt, last.v, MaxUnwrap))
      /\ UNCHANGED <<regs, latest, seen>>

\* m.PlanScan(oid, formatCode, target) on the empty cache
ResolveScan ==
  LET Returned(r) ==
        /\ m' = r.m
        /\ last' = [last EXCEPT !.op = "PlanScan", !.plan = r.plan]
  IN  /\ last.op = "args"
      /\ Returned(PlanScan(m, last.oid, last.fmt, last.v))
      /\ UNCHANGED <<regs, latest, seen>>

\* a second m.PlanScan for a destination of the same type with other content
ResolveScanAgain(target) ==
  LET Returned(r) ==
        /\ m' = r.m
        /\ last' = [last EXCEPT !.op = "PlanScanAgain", !.v = target,
                                !.plan = r.plan, !.path = <<last.v>>]
  IN  /\ last.op = "PlanScan"
      /\ target.t = last.v.t
      /\ target # last.v
      /\ Returned(PlanScan(m, last.oid, last.fmt, target))
      /\ UNCHANGED <<regs, latest, seen>>

\* m.Scan(oid, formatCode, src, dst) on the empty cache
RunScan(src) ==
  LET Returned(r) ==
        /\ m' = r.m
        /\ last' = [last EXCEPT !.op = "Scan", !.src = src, !.out = r.out,
                                !.plan = r.plan]
  IN  /\ last.op = "args"
      /\ Returned(Scan(m, last.oid, last.fmt, src, last.v))
      /\ UNCHANGED <<regs, latest, seen>>

\* plan.Scan(src, dst) with the plan the second PlanScan returned and its
\* destination; path becomes the first destination and the one written to
ScanAgain(src) ==
  LET Into(plan, dst, planned) ==
        IF \A i \in DOMAIN plan.w : scanTarget(plan.w[i], dst, planned) = dst
        THEN dst ELSE planned
      Written(into) ==
        last' = [last EXCEPT !.op = "ScanAgain", !.src = src,
                             !.out = ScanWith(last.plan, src, into, 1, "old"),
                             !.path = <<last.path[1], into>>]
  IN  /\ last.op = "PlanScanAgain"
      /\ ~Aborted(last.plan)
      /\ Written(Into(last.plan, last.v, last.path[1]))
      /\ UNCHANGED <<m, regs, latest, seen>>

Handed(op, next) ==
  /\ last' = [last EXCEPT !.op = op, !.v = next, !.path = Append(@, last.v)]
  /\ UNCHANGED <<m, regs, latest, seen>>

\* PlanEncode's loop: rule f claims the value and PlanEncode is called for
\* its nextValue
DescendEncode(f) ==
  LET Tried(try) == try.ok /\ Handed("encode", try.next)
  IN  /\ last.op \in {"shape", "encode"}
      /\ last.v.t # NilType
      /\ Tried(TryWrapEncodePlanFunc(f, last.v))

\* ArrayCodec.PlanEncode: PlanEncode is called for the element type
DescendEncodeElement ==
  /\ last.op = "encode"
  /\ IsArrayGetter(last.v.t)
  /\ Handed("encode", Zero(IndexType(last.v)))

\* planScan's loop: rule f claims the destination and planScan is called for
\* its nextDst
DescendScan(f) ==
  LET Tried(try) == try.ok /\ Handed("scan", try.next)
  IN  /\ last.op \in {"shape", "scan"}
      /\ last.v.t # NilType
      /\ Tried(TryWrapScanPlanFunc(f, last.v))

\* ArrayCodec.PlanScan: planScan is called for a pointer to the element type
DescendScanElement ==
  /\ last.op = "scan"
  /\ IsArraySetter(last.v.t)
  /\ Handed("scan", PtrToZero(IndexType(last.v)))

NextEnc ==
  \/ ResolveEncode /\ UNCHANGED conc
  \/ RunEncode /\ UNCHANGED conc
  \/ ResolveScan /\ UNCHANGED conc
  \/ \E src \in Payloads : RunScan(src) /\ UNCHANGED conc
  \/ \E target \in UserValues : ResolveScanAgain(target) /\ UNCHANGED conc
  \/ \E src \in Payloads : ScanAgain(src) /\ UNCHANGED conc
  \/ \E f \in {DefaultEncodePlanFuncs[i] : i \in DOMAIN DefaultEncodePlanFuncs} :
       DescendEncode(f) /\ UNCHANGED conc
  \/ DescendEncodeElement /\ UNCHANGED conc
  \/ \E f \in {DefaultScanPlanFuncs[i] : i \in DOMAIN DefaultScanPlanFuncs} :
       DescendScan(f) /\ UNCHANGED conc
  \/ DescendScanElement /\ UNCHANGED conc

SpecEnc == InitEnc /\ [][NextEnc]_vars

(***************************************************************************)
(* The registry and the scan-plan cache.                                   *)
(***************************************************************************)
IsRegistration(c) == c.op \in {"RegisterType", "RegisterDefaultPgType"}

\* the plans the cache holds, by (oid, type, format)
CachedKeys(mm) ==
  {<<k[1], k[2], f>> : k \in Entries(mm), f \in {TextFormatCode, BinaryFormatCode}}

CachedPlan(mm, key) == mm.memoizedScanPlans[key[1]][key[2]][key[3] + 1]

\* C1: when RegisterType or RegisterDefaultPgType has returned the scan-plan
\* cache is empty; every plan the cache holds was resolved after the latest
\* registration, and the first PlanScan for given arguments after a
\* registration runs the resolution and returns what the registry as it is
\* now resolves
C1_RegistrationEmptiesCache ==
  /\ IsRegistration(last) => m.memoizedScanPlans = EmptyMap
  /\ \A key \in CachedKeys(m) : ~IsNil(CachedPlan(m, key)) => key \in DOMAIN seen
  /\ (last.op = "PlanScan" /\ last.first /\ last.fmt \in {0, 1}) =>
       /\ last.resolved
       /\ last.plan = Strip(planScan(m, last.oid, last.fmt, last.v, MaxFuel))

\* a registration has just discarded memoized plans
C1_Witness ==
  /\ IsRegistration(last)
  /\ last.dropped > 0
  /\ m.memoizedScanPlans = EmptyMap

\* C2: a PlanScan whose arguments were given to an earlier PlanScan, with no
\* registration in between, returns the plan that call memoized and runs no
\* resolution: no codec PlanScan method, no adapter rule
C2_SecondCallIsMemoized ==
  (last.op = "PlanScan" /\ ~last.first) =>
    /\ ~last.resolved
    /\ last.plan = seen[<<last.oid, last.v.t, last.fmt>>]
    /\ last.plan = CachedPlan(m, <<last.oid, last.v.t, last.fmt>>)

\* a repeated PlanScan has returned a plan with adapter rules in it
C2_Witness ==
  /\ last.op = "PlanScan"
  /\ ~last.first
  /\ ~last.resolved
  /\ last.plan.w # <<>>

\* C3: the oid index and the name index agree: the descriptor found under a
\* name is the one found under its own oid, and the descriptor found under
\* an oid is the one found under its own name, so that a replaced descriptor
\* is found through neither
C3_IndexesAgree ==
  /\ \A name \in DOMAIN m.nameToType :
       TypeForOID(m, m.nameToType[name].OID) = Found(m.nameToType[name])
  /\ \A oid \in DOMAIN m.oidToType :
       TypeForName(m, m.oidToType[oid].Name) = Found(m.oidToType[oid])

\* the oids asked about
ProbeOIDs == {0, CustomOID, CustomOID + 1} \cup {NewMapTypes[i].OID : i \in DOMAIN NewMapTypes}

\* C4: TypeForOID(I) is the descriptor most recently registered under I and
\* FormatCodeForOID(I) its codec's preferred format; for an oid never
\* registered TypeForOID finds nothing and FormatCodeForOID is the text
\* format
C4_LatestRegistrationWins ==
  \A oid \in ProbeOIDs :
    IF oid \in DOMAIN latest
    THEN /\ TypeForOID(m, oid) = Found(latest[oid])
         /\ FormatCodeForOID(m, oid) = PreferredFormat(latest[oid].Codec)
    ELSE /\ ~TypeForOID(m, oid).ok
         /\ FormatCodeForOID(m, oid) = TextFormatCode

\* int4 has been registered again with a codec that prefers the text format,
\* and another oid is still unregistered
C4_Witness ==
  /\ last.op = "RegisterType"
  /\ last.oid = Int4OID
  /\ TypeForOID(m, Int4OID).dt.Codec.kind = "TextCodec"
  /\ FormatCodeForOID(m, Int4OID) = TextFormatCode
  /\ ~TypeForOID(m, CustomOID).ok

(***************************************************************************)
(* Concurrent use.                                                         *)
(***************************************************************************)
\* the Map with the shape index not built yet: a call made alone builds it
\* completely
Alone(mm) == [mm EXCEPT !.reflectTypeToType = NilIndex]

\* what PlanScan, called alone, returns for the request of goroutine p
SequentialPlan(p) ==
  Strip(planScan(Alone(m), loc[p].oid, loc[p].fmt, loc[p].v, MaxFuel))

\* C5: once setup is over, two goroutines calling PlanScan for different
\* oids make no conflicting accesses to the Map that nothing orders, the
\* program goes on, and each call returns the plan PlanScan returns when
\* called alone
C5_ConcurrentPlanScanIsSafe ==
  (/\ phase # "setup"
   /\ \A p \in Procs : loc[p].op = "PlanScan"
   /\ loc[1].oid # loc[2].oid) =>
    /\ ~Raced
    /\ phase # "crashed"
    /\ \A p \in Procs : pc[p] = "done" => loc[p].plan = SequentialPlan(p)

\* C6: once setup is over, goroutines calling TypeForValue, directly or from
\* planScan, make no conflicting accesses to the shape index that nothing
\* orders, and each direct call returns what TypeForValue returns when
\* called alone
C6_ConcurrentTypeForValueIsSafe ==
  phase # "setup" =>
    /\ ~RacedOn(reflectTypeToType)
    /\ \A p \in Procs :
         (pc[p] = "done" /\ loc[p].op = "TypeForValue") =>
           loc[p].found = TypeForValue(Alone(m), loc[p].v)

(***************************************************************************)
(* Resolution through the wrapper rules.                                   *)
(***************************************************************************)
Resolved == last.op \in {"PlanEncode", "Encode", "PlanScan", "PlanScanAgain"}

\* C7: with NewMap's rules PlanEncode and planScan terminate for every shape
\* and every registry: no resolution uses up the recursion budget, the plan
\* has no more wrappers than the shape has levels, and along every descent
\* through the rules the shape handed on was not handed on before.
C7_ResolutionTerminates ==
  /\ Resolved => /\ last.plan.term # "overflow"
                 /\ Len(last.plan.w) <= Len(last.v.t)
  /\ last.op \in {"encode", "scan"} =>
       \A i \in DOMAIN last.path : last.path[i] # last.v

\* a shape of more than MaxNest levels that no codec plans for has been
\* resolved to no plan
C7_Witness ==
  /\ last.op = "PlanEncode"
  /\ Len(last.v.t) > MaxNest
  /\ IsNil(last.plan)
  /\ CustomOID \in DOMAIN m.oidToType

\* the oid the rules' inner resolutions are called with
AdoptedOID ==
  LET Adopt(found) == IF found.ok THEN found.dt.OID ELSE last.oid
  IN  IF last.op = "PlanEncode"
      THEN IF last.oid = 0 THEN Adopt(TypeForValue(m, last.v)) ELSE last.oid
      ELSE IF TypeForOID(m, last.oid).ok THEN last.oid
           ELSE Adopt(TypeForValue(m, last.v))

EncodeRule(i) == TryWrapEncodePlanFunc(DefaultEncodePlanFuncs[i], last.v)
ScanRule(i) == TryWrapScanPlanFunc(DefaultScanPlanFuncs[i], last.v)

\* what the inner resolution of rule i answers: NilPlan when the rule does
\* not claim or its inner resolution fails
EncodeInner(i) ==
  LET Inner(try) ==
        IF try.ok
        THEN Strip(PlanEncode(m, AdoptedOID, last.fmt, try.next, MaxFuel))
        ELSE NilPlan
  IN  Inner(EncodeRule(i))

ScanInner(i) ==
  LET Failed(plan) == IF plan.term = "scanPlanFail" THEN NilPlan ELSE plan
      Inner(try) ==
        IF try.ok
        THEN Failed(Strip(planScan(m, AdoptedOID, last.fmt, try.next, MaxFuel)))
        ELSE NilPlan
  IN  Inner(ScanRule(i))

\* C8: NewMap installs the rules in the order dereference, builtin wrap,
\* underlying type, struct, slice, multi-dimensional slice on both sides; a
\* plan with a wrapper is the wrapper of the earliest rule whose inner
\* resolution succeeds around that inner plan, every earlier rule having
\* failed; a resolution fails only when every rule fails.
C8_EarliestSuccessfulRuleWins ==
  /\ m.TryWrapEncodePlanFuncs =
       << "TryWrapDerefPointerEncodePlan", "TryWrapBuiltinTypeEncodePlan",
          "TryWrapFindUnderlyingTypeEncodePlan", "TryWrapStructEncodePlan",
          "TryWrapSliceEncodePlan", "TryWrapMultiDimSliceEncodePlan" >>
  /\ m.TryWrapScanPlanFuncs =
       << "TryPointerPointerScanPlan", "TryWrapBuiltinTypeScanPlan",
          "TryFindUnderlyingTypeScanPlan", "TryWrapStructScanPlan",
          "TryWrapPtrSliceScanPlan", "TryWrapPtrMultiDimSliceScanPlan" >>
  /\ (last.op = "PlanEncode" /\ ~Aborted(last.plan)) =>
       /\ last.plan.w # <<>> =>
            \E i \in 1..6 :
              /\ ~IsNil(EncodeInner(i))
              /\ last.plan = SetNext(EncodeRule(i).plan, EncodeInner(i))
              /\ \A j \in 1..(i - 1) : IsNil(EncodeInner(j))
       /\ IsNil(last.plan) => \A i \in 1..6 : IsNil(EncodeInner(i))
  /\ (last.op = "PlanScan" /\ ~Aborted(last.plan)) =>
       /\ last.plan.w # <<>> =>
            \E i \in 1..6 :
              /\ ~IsNil(ScanInner(i))
              /\ last.plan = SetNext(ScanRule(i).plan, ScanInner(i))
              /\ \A j \in 1..(i - 1) : IsNil(ScanInner(j))
       /\ last.plan.term = "scanPlanFail" => \A i \in 1..6 : IsNil(ScanInner(i))

\* a value two rules claim: the inner resolution of the earlier one failed
\* and the wrapper returned is the later one's
C8_Witness ==
  /\ last.op = "PlanEncode"
  /\ last.plan.w # <<>>
  /\ \E i, j \in 1..6 :
       /\ j < i
       /\ EncodeRule(j).ok
       /\ IsNil(EncodeInner(j))
       /\ last.plan = SetNext(EncodeRule(i).plan, EncodeInner(i))

\* a destination is ragged when it points to a ragged slice of slices
HoldsRagged(v) == IsPtr(v.t) /\ ~IsNilPtr(v) /\ isRagged(Pointee(v))

\* C9: a ragged slice of slices is rejected on both sides, for every oid and
\* format: PlanEncode returns no plan for it, PlanScan returns scanPlanFail
\* for a destination holding one, and no ragged content is ever written.
C9_RaggedIsRejected ==
  /\ (last.op = "PlanEncode" /\ ~IsPtr(last.v.t) /\ isRagged(last.v)) =>
       IsNil(last.plan)
  /\ (last.op \in {"PlanScan", "PlanScanAgain"} /\ HoldsRagged(last.v)) =>
       last.plan.term = "scanPlanFail"
  /\ (last.op = "Encode" /\ last.out.kind = "bytes") => ~last.out.rg

\* C10: Map.Encode of a non-nil *T has the outcome of Map.Encode of the T it
\* points to, for every T, oid and format.
C10_PointerTransparency ==
  (last.op = "Encode" /\ IsPtr(last.v.t) /\ ~IsNilPtr(last.v)) =>
    last.out = Encode(m, last.oid, last.fmt, Pointee(last.v))

(***************************************************************************)
(* NULL on both sides.                                                     *)
(***************************************************************************)
\* C11: Map.Encode of the untyped nil returns (nil, nil) and consults
\* nothing (the shape index is not built); Map.Encode of a nil *T returns
\* (nil, nil) as well, for every T, oid and format.
C11_NilEncodesAsNull ==
  /\ (last.op = "Encode" /\ last.v.t = NilType) =>
       /\ last.out = Null
       /\ ~m.reflectTypeToType.built
  /\ (last.op = "Encode" /\ IsPtr(last.v.t) /\ IsNilPtr(last.v)) =>
       last.out = Null

\* C12: Map.Scan of a NULL payload into a destination **T sets the *T it
\* points to to nil and returns no error, for every T, oid and format and
\* whatever the pointer held.
C12_NullIntoPointerPointer ==
  (/\ last.op = "Scan" /\ last.src = "null"
   /\ Kind(last.v.t) = "ptr" /\ Kind(Elem(last.v.t)) = "ptr" /\ ~IsNilPtr(last.v)) =>
    /\ last.out.kind = "ok"
    /\ last.out.nl = 2

\* the arguments for which planScan answers the string byte-copy plan
ToStringPlan ==
  /\ last.v.t = <<"ptr", "string">>
  /\ \/ last.fmt = TextFormatCode
     \/ last.fmt = BinaryFormatCode /\ last.oid \in {TextOID, VarcharOID}

\* C13: a scan into a *string goes through scanPlanString in text format
\* with any oid and in binary format with the text or varchar oid; with a
\* NULL payload it returns an error and leaves the string as it was.
C13_NullIntoStringFails ==
  (last.op = "Scan" /\ ToStringPlan) =>
    /\ last.plan = Terminal("scanPlanString")
    /\ last.src = "null" => /\ last.out.kind = "error"
                            /\ last.out.val = "old"
                            /\ last.out.nl = last.v.nl

C13_Witness ==
  /\ last.op = "Scan"
  /\ ToStringPlan
  /\ last.fmt = BinaryFormatCode
  /\ ~IsNilPtr(last.v)
  /\ last.src = "null"
  /\ last.out.kind = "error"

\* C14: a text-format scan into a *[]byte with an oid other than bytea
\* keeps NULL and empty apart: a nil payload leaves a nil slice, an empty
\* payload a non-nil empty slice, any other payload a copy in memory of its
\* own.
C14_BytesNullEmptyCopy ==
  (/\ last.op = "Scan" /\ last.fmt = TextFormatCode /\ last.oid # ByteaOID
   /\ last.v.t = <<"ptr", "slice", "uint8">> /\ ~IsNilPtr(last.v)) =>
    /\ last.plan = Terminal("scanPlanAnyTextToBytes")
    /\ last.out.kind = "ok"
    /\ last.src = "null" => last.out.val = "nil"
    /\ last.src = "empty" => last.out.val = "empty"
    /\ last.src = "data" => last.out.val = "copy"

C14_Witness ==
  /\ last.op = "Scan"
  /\ last.fmt = TextFormatCode
  /\ last.oid = Int4OID
  /\ last.v.t = <<"ptr", "slice", "uint8">>
  /\ last.src = "data"
  /\ last.out = Scanned("ok", 0, "copy")

(***************************************************************************)
(* The descriptor a resolution uses.                                       *)
(***************************************************************************)
\* the descriptor the shape index holds for the value of the call
ByShape == TypeForValue(m, last.v)

\* C15: PlanEncode with oid 0 and a value whose shape maps to a descriptor D
\* plans with D's codec under D.OID and resolves as the call with D.OID
\* does; with a nonzero oid the descriptor is the one registered under the
\* oid and the shape index is not consulted (it stays unbuilt).
C15_EncodeAdoptsInferredOID ==
  /\ (last.op = "PlanEncode" /\ last.oid = 0 /\ ByShape.ok
      /\ TypeForOID(m, ByShape.dt.OID) = ByShape) =>
       /\ last.plan = Strip(PlanEncode(m, ByShape.dt.OID, last.fmt, last.v, MaxFuel))
       /\ (last.plan.w = <<>> /\ last.plan.term = "codec") =>
            /\ last.plan.oid = ByShape.dt.OID
            /\ last.plan.codec = ByShape.dt.Codec.kind
  /\ (last.op = "PlanEncode" /\ last.oid # 0) =>
       /\ ~m.reflectTypeToType.built
       /\ (last.plan.w = <<>> /\ last.plan.term = "codec") =>
            /\ last.plan.oid = last.oid
            /\ last.plan.codec = TypeForOID(m, last.oid).dt.Codec.kind

\* a slice whose shape maps to an array descriptor was planned with oid 0:
\* the element plan was found under the element oid of that descriptor
C15_Witness ==
  /\ last.op = "PlanEncode"
  /\ last.oid = 0
  /\ last.v.t = <<"slice", "int32">>
  /\ ByShape.ok
  /\ last.plan.w = <<"wrapSliceEncodePlan">>
  /\ last.plan.oid = Int4ArrayOID

\* C16: planScan finds the descriptor as PlanEncode does: with a nonzero oid
\* only under the oid (the shape index is not consulted and stays unbuilt),
\* so that a plan made by a codec is one for the oid of the call, never for
\* an oid inferred from the destination.
C16_ScanResolvesLikeEncode ==
  (last.op = "PlanScan" /\ last.oid # 0 /\ ~Aborted(last.plan)) =>
    /\ ~m.reflectTypeToType.built
    /\ last.plan.term = "codec" => last.plan.oid = last.oid

\* C17: in the text format Map.Encode of a Go string returns the buffer with
\* the string's bytes appended by encodePlanStringToAnyTextFormat, whatever
\* the oid: no descriptor is looked up and no codec makes the plan.
C17_TextStringIsAppended ==
  (last.op = "Encode" /\ last.fmt = TextFormatCode /\ last.v.t = <<"string">>) =>
    /\ last.out = Bytes(Terminal("encodePlanStringToAnyTextFormat"), <<>>, FALSE)
    /\ last.plan = Terminal("encodePlanStringToAnyTextFormat")
    /\ ~m.reflectTypeToType.built

C17_Witness ==
  /\ last.op = "Encode" /\ last.fmt = TextFormatCode /\ last.v.t = <<"string">>
  /\ last.oid = Int4ArrayOID
  /\ TypeForOID(m, last.oid).ok
  /\ last.out.kind = "bytes"

(***************************************************************************)
(* Failure on both sides.                                                  *)
(***************************************************************************)
FailedToPlan ==
  last.op \in {"PlanScan", "Scan"} /\ last.plan.term = "scanPlanFail"

\* C18: a PlanScan that finds no strategy returns scanPlanFail itself (under
\* no wrapper), leaves it in m.memoizedScanPlans under the oid, destination
\* type and format of the call, and the plan's Scan is an error for every
\* payload, NULL included, that leaves the destination as it was.
C18_FailurePlanIsCachedAndAlwaysFails ==
  FailedToPlan =>
    /\ last.plan.w = <<>>
    /\ typeMemoOf(m, last.oid, last.v.t)[last.fmt + 1] = last.plan
    /\ \A src \in Payloads :
         ScanWith(last.plan, src, last.v, 1, "old")
           = Scanned("error", last.v.nl, "old")
    /\ last.op = "Scan" => last.out = Scanned("error", last.v.nl, "old")

C18_Witness ==
  /\ FailedToPlan
  /\ last.op = "Scan"
  /\ last.src = "null"
  /\ last.oid # 0
  /\ last.out.kind = "error"

\* C19: one Map.Encode call calls Value() of a driver.Valuer that has no
\* plan at most once and then returns; with no plan and a value that is no
\* driver.Valuer it returns the error and no bytes.
C19_ValuerIsUnwrappedOnce ==
  last.op = "Encode" =>
    /\ last.unwraps <= 1
    /\ last.out.kind # "overflow"
    /\ (last.v.t # NilType /\ IsNil(last.plan) /\ ~IsDriverValuer(last.v.t))
         => last.out = Error

(***************************************************************************)
(* The fmt.Stringer wrap.                                                  *)
(***************************************************************************)
\* C20: PlanEncode wraps a value as a fmt.Stringer only as the last resort:
\* when its plan starts with wrapFmtStringerEncodePlan, the dereference,
\* underlying-type, struct, slice and multi-dimensional slice rules all
\* fail to yield a plan for the value (the codec's own plan having failed).
C20_StringerIsLastResort ==
  (/\ last.op = "PlanEncode"
   /\ last.plan.w # <<>>
   /\ Head(last.plan.w) = "wrapFmtStringerEncodePlan") =>
    \A i \in {1, 3, 4, 5, 6} : IsNil(EncodeInner(i))

(***************************************************************************)
(* The shape index.                                                        *)
(***************************************************************************)
\* reflectTypeToName[reflect.TypeOf(v)] followed by TypeForName
ByNameOfShape(v) ==
  IF v.t \in DOMAIN m.reflectTypeToName
  THEN TypeForName(m, m.reflectTypeToName[v.t])
  ELSE NotFound

\* C21: after any RegisterType and RegisterDefaultPgType calls, in any
\* order, TypeForValue(v) finds D exactly when the type of v is mapped to a
\* name N and TypeForName(N) finds D; a registration leaves no index behind,
\* and an index that is there is the one the registry as it is now builds.
C21_ShapeIndexIsCurrent ==
  /\ IsRegistration(last) => ~m.reflectTypeToType.built
  /\ m.reflectTypeToType.built => m.reflectTypeToType = buildReflectTypeToType(m)
  /\ \A v \in TypeForValueInputs : TypeForValue(m, v) = ByNameOfShape(v)
  /\ last.op = "TypeForValue" => last.found = ByNameOfShape(last.v)

\* MyInt was mapped to int4 and int4 registered again with another codec,
\* the index having been built before: TypeForValue finds the new int4
C21_Witness ==
  /\ last.op = "TypeForValue"
  /\ last.v.t = <<"MyInt">>
  /\ regs = 2
  /\ last.found.ok
  /\ last.found.dt.Codec.kind = "TextCodec"

(***************************************************************************)
(* The cached plan and the destination it was resolved for.                *)
(***************************************************************************)
\* C22: the plan PlanScan returns for a destination whose type, oid and
\* format an earlier call resolved is the plan planScan resolves for this
\* destination: what the first destination held leaves no trace.
C22_CachedPlanIsFreshPlan ==
  (last.op = "PlanScanAgain" /\ ~Aborted(last.plan)) =>
    last.plan = Strip(planScan(m, last.oid, last.fmt, last.v, MaxFuel))

(***************************************************************************)
(* The rules and a nil pointer.                                            *)
(***************************************************************************)
\* C23: PlanScan returns for every destination, a pointer to a pointer to a
\* struct and a typed nil pointer to a struct included: no rule panics on
\* the nil inner pointer TryPointerPointerScanPlan hands on, and the result
\* is a plan or scanPlanFail.
C23_PlanScanNeverAborts ==
  last.op = "PlanScan" => last.plan.term # "panic"

(***************************************************************************)
(* The fast paths and the fallbacks of planScan.                           *)
(***************************************************************************)
\* C24: planScan answers from its fast paths before any lookup: for an
\* *UndecodedBytes destination scanPlanAnyToUndecodedBytes in every format;
\* for a *string scanPlanString in the text format under every oid and in
\* the binary format exactly under the text and varchar oids; for a *[]byte
\* in the text format scanPlanAnyTextToBytes exactly when the oid is not
\* bytea.  Such a plan has no wrapper and no codec, and the shape index was
\* not consulted for it.
C24_FastPathsComeFirst ==
  (last.op = "PlanScan" /\ ~Aborted(last.plan)) =>
    /\ last.v.t = <<"ptr", "UndecodedBytes">> =>
         last.plan = Terminal("scanPlanAnyToUndecodedBytes")
    /\ last.v.t = <<"ptr", "string">> =>
         (last.plan = Terminal("scanPlanString")
            <=> \/ last.fmt = TextFormatCode
                \/ last.fmt = BinaryFormatCode /\ last.oid \in {TextOID, VarcharOID})
    /\ (last.v.t = <<"ptr", "slice", "uint8">> /\ last.fmt = TextFormatCode) =>
         (last.plan = Terminal("scanPlanAnyTextToBytes") <=> last.oid # ByteaOID)
    /\ last.plan.term \in {"scanPlanAnyToUndecodedBytes", "scanPlanString",
                           "scanPlanAnyTextToBytes"} /\ last.plan.w = <<>> =>
         /\ last.plan.codec = ""
         /\ ~m.reflectTypeToType.built

\* the bytea exception: a *[]byte in the text format is left to ByteaCodec
C24_Witness ==
  /\ last.op = "PlanScan"
  /\ last.v.t = <<"ptr", "slice", "uint8">>
  /\ last.fmt = TextFormatCode
  /\ last.oid = ByteaOID
  /\ last.plan.term = "codec"
  /\ last.plan.codec = "ByteaCodec"

\* the descriptor planScan uses: by oid, or else by the destination's type
UsedType ==
  IF TypeForOID(m, last.oid).ok THEN TypeForOID(m, last.oid)
  ELSE TypeForValue(m, last.v)

\* the fallback the end of planScan selects
Fallback ==
  IF UsedType.ok /\ last.v.t = <<"ptr", "iface">> THEN "pointerEmptyInterfaceScanPlan"
  ELSE IF UsedType.ok /\ IsSQLScanner(last.v.t) THEN "scanPlanCodecSQLScanner"
  ELSE IF IsSQLScanner(last.v.t) THEN "scanPlanSQLScanner"
  ELSE "scanPlanFail"

\* C25: a plan of planScan that is one of the generic fallbacks was chosen
\* after the codec of the descriptor planned nothing and every rule failed,
\* and it is: with a descriptor pointerEmptyInterfaceScanPlan for an
\* *interface{}, else scanPlanCodecSQLScanner for an sql.Scanner; with no
\* descriptor scanPlanSQLScanner for an sql.Scanner; scanPlanFail for the
\* rest.  scanPlanSQLScanner gives the scanner nil for NULL, the bytes in
\* the binary format and a string in the text format.
C25_FallbacksComeLast ==
  /\ (/\ last.op \in {"PlanScan", "Scan"}
      /\ last.plan.w = <<>>
      /\ last.plan.term \in {"pointerEmptyInterfaceScanPlan", "scanPlanCodecSQLScanner",
                             "scanPlanSQLScanner", "scanPlanFail"}) =>
       /\ UsedType.ok =>
            IsNil(CodecPlanScan(m, UsedType.dt.Codec, AdoptedOID, last.fmt, last.v,
                                MaxFuel))
       /\ \A i \in 1..6 : IsNil(ScanInner(i))
       /\ last.plan.term = Fallback
       /\ last.plan.codec = IF UsedType.ok /\ Fallback # "scanPlanFail"
                            THEN UsedType.dt.Codec.kind ELSE ""
  /\ (last.op = "Scan" /\ last.plan = Plan("scanPlanSQLScanner", "", 0, last.fmt)) =>
       last.out = Scanned("ok", last.v.nl,
                          IF last.src = "null" THEN "nil"
                          ELSE IF last.fmt = BinaryFormatCode THEN "bytes"
                          ELSE "string")

\* NULL given to an sql.Scanner that has no descriptor
C25_Witness ==
  /\ last.op = "Scan"
  /\ last.plan.term = "scanPlanSQLScanner"
  /\ ~UsedType.ok
  /\ last.src = "null"
  /\ last.out.val = "nil"

(***************************************************************************)
(* Pointers to destinations.                                               *)
(***************************************************************************)
\* &p for the destination p of the last call
PtrToLast == [last.v EXCEPT !.t = <<"ptr">> \o @]

\* C26: when PlanScan finds a plan other than scanPlanFail for a *T, it
\* finds one for the **T that points to it, and that plan starts with
\* pointerPointerScanPlan, for every T, oid and format.
C26_ScanPointerTransparency ==
  LET Planned(pp) ==
        /\ ~Aborted(pp)
        /\ pp.term # "scanPlanFail"
        /\ pp.w # <<>>
        /\ Head(pp.w) = "pointerPointerScanPlan"
  IN  (/\ last.op = "PlanScan"
       /\ IsPtr(last.v.t)
       /\ last.v.nl = 0
       /\ ~Aborted(last.plan)
       /\ last.plan.term # "scanPlanFail") =>
        Planned(planScan(m, last.oid, last.fmt, PtrToLast, MaxFuel))

C28_UnknownFormatGetsFailurePlan ==
  (last.op = "PlanScan" /\ last.fmt \notin {TextFormatCode, BinaryFormatCode}) =>
    /\ ~Aborted(last.plan)
    /\ last.plan.term = "scanPlanFail"

(***************************************************************************)
(* The two underlying-type rules.                                          *)
(***************************************************************************)
\* C29: for a value of a named type T that PlanEncode was given or a rule
\* handed on, TryWrapFindUnderlyingTypeEncodePlan claims it exactly when
\* TryFindUnderlyingTypeScanPlan claims a pointer to it, and neither claims
\* when T is a SkipUnderlyingTypePlanner.
C29_UnderlyingTypeRulesMirror ==
  (last.op \in {"PlanEncode", "encode"} /\ Len(last.v.t) = 1 /\ last.v.t # NilType) =>
    /\ TryWrapFindUnderlyingTypeEncodePlan(last.v).ok
         <=> TryFindUnderlyingTypeScanPlan(PtrToLast).ok
    /\ IsSkipUnderlyingTypePlanner(last.v.t) =>
         /\ ~TryWrapFindUnderlyingTypeEncodePlan(last.v).ok
         /\ ~TryFindUnderlyingTypeScanPlan(PtrToLast).ok

(***************************************************************************)
(* Encoding under an oid nothing is registered for.                        *)
(***************************************************************************)
\* C30: under a nonzero oid with no descriptor PlanEncode returns no plan in
\* the binary format, whatever the value, and consults no shape index;
\* Map.Encode then returns the error or NULL, and no bytes.
C30_UnregisteredOIDEncodesNothing ==
  (/\ last.op \in {"PlanEncode", "Encode"}
   /\ last.oid # 0
   /\ ~TypeForOID(m, last.oid).ok
   /\ last.fmt = BinaryFormatCode) =>
    /\ IsNil(last.plan)
    /\ ~m.reflectTypeToType.built
    /\ last.op = "Encode" => last.out \in {Error, Null}

=============================================================================
